---------------------------- MODULE Spec2Model ----------------------------
(***************************************************************************)
(* A model of the worker pool (base/worker_pool.py) and of the report      *)
(* fan-out (reporting/report.py) of the pants build orchestrator.          *)
(*                                                                         *)
(* The worker pool is driven by one client thread, which submits work,     *)
(* work chains and shutdown(); the pool's worker threads run the           *)
(* invocations; the pool's result-handler thread collects their results    *)
(* and runs the callbacks (multiprocessing.pool.ThreadPool, as called by   *)
(* the code).  The work unit that _do_work opens around an invocation      *)
(* with a workunit_name changes neither what the invocation returns nor    *)
(* what it raises, and is left out.                                        *)
(*                                                                         *)
(* The report is driven by the threads that start and end work units, by   *)
(* the producers that append to the units' output buffers, by the emitter  *)
(* thread and by the thread that closes the report.  The reporters are     *)
(* those of reporting/reporter.py: a ConsoleReporter, whose callbacks      *)
(* always return, and a FileReporter, whose callbacks raise once its file  *)
(* is closed.                                                              *)
(*                                                                         *)
(* The run tracker is driven by threads that open work scopes, one inside  *)
(* another or side by side; each line of new_work_scope that reads or      *)
(* writes _current_workunit is a step of its own.  The cache manager is    *)
(* driven by a task that checks a list of targets with a size hint.        *)
(*                                                                         *)
(* Spec is the pool with a client of work chains, hooks and shutdown();    *)
(* SpecWork the pool with a client of single Works; SpecReport the report; *)
(* SpecTracker the run tracker; SpecCache the cache manager's check.       *)
(***************************************************************************)
EXTENDS Integers, Sequences, FiniteSets, TLC

\* ------------------------------------------------------------ bounds -----
\* Worker threads of the pool (num_workers).
NumWorkers == 2
\* The client's budget: each submitted Work costs one unit per argument tuple,
\* an empty Work or an empty chain costs one unit.
MaxInv == 3
\* Most submissions of an empty Work.
MaxEmpty == 2
\* Most shutdown hooks.
MaxHooks == 2
\* Reporters of the report.
NumReporters == 2
\* Work units.
MaxUnits == 2
\* Most bytes produced, over all output buffers.
MaxBytes == 2

\* The threads that open work scopes, and the most scopes they open together.
NumThreads == 2
MaxScopes == 2

\* The targets of a check, the most sources of a target, and the largest hint.
MaxTargets == 3
MaxSources == 2
MaxHint == 2
\* Changes of sources, and runs of the compile task with a cache manager each.
MaxEdits == 1
MaxRuns == 2
\* Seconds of one timing, and calls of add_timing.
MaxSecs == 2
MaxAdds == 3
\* Bytes of a file the server reads.
FileLen == 3
\* Requests the server answers.
MaxRequests == 1
\* Chains the compile task writes artifacts with.
MaxChains == 1

VARIABLES
  pcMain,        \* where the client thread is: "idle", "sync_wait", "sd_wait", "sd_join", "sd_hooks", "done"
  pending,       \* WorkerPool._pending_workchains
  closed,        \* the ThreadPool has been closed
  hooks,         \* WorkerPool._shutdown_hooks
  hooksRun,      \* the hooks shutdown() has called, in call order
  jobs,          \* the map_async / map jobs, in submission order (a job's id is its index)
  chains,        \* the submitted work chains, in submission order
  taskq,         \* the pool's task queue: <<job, i>> in FIFO order
  outq,          \* the pool's result queue: [job, i, ok] in FIFO order
  running,       \* the invocations the worker threads are in: [job, i, pc]
  hpc,           \* the result-handler thread: <<"idle">>, <<"decr", job>>, <<"dead">>
  logged,        \* the invocations whose error run_tracker.log has recorded
  emptySubmits,  \* submit_async_work calls with an empty Work
  emptyCalls,    \* the arguments of the callbacks those calls made, in order
  syncRes,       \* the outcome of the last submit_work_and_wait
  lateSubmit,    \* a chain step was submitted to the closed pool
  used,          \* what the client has spent of its budget
  \* ---- the report (reporting/report.py)
  rstate,        \* the Report: "init", "opened", "closing", "closed", "close_failed"
  reporters,     \* Report._reporters: the kind of each reporter, in list order
  fileOpen,      \* per reporter: a FileReporter's _file is open
  wmap,          \* Report._workunits: the ids of the registered work units
  ustate,        \* per work unit: "new", "open", "ending", "ended", "aborted"
  lockOp,        \* the holder of Report._lock: <<>> or [op, unit, todo]
  emitter,       \* the emitter thread: "off", "sleep", "woke", "flushing", "dead"
  stopped,       \* the emitter thread has been told to stop
  produced,      \* per unit and label: the number of bytes appended to the buffer
  readPos,       \* per unit and label: the number of bytes read from the buffer
  delivered,     \* per reporter, unit and label: the bytes handle_output was called with
  startedAt,     \* per reporter: the units whose start_workunit it was called with
  endedAt,       \* per reporter: the units whose end_workunit it was called with
  endMark,       \* per unit and label: the bytes produced when end_workunit was called
  \* ---- the run tracker (goal/run_tracker.py)
  current_workunit,  \* RunTracker._current_workunit: a unit's id, or 0 for None
  workunits,         \* the WorkUnits created, by id (the root is 1)
  frames,            \* per thread: its new_work_scope calls under way, innermost last
  \* ---- the cache manager (tasks/cache_manager.py)
  ppc,                  \* CacheManager.check: "idle", "loop" (partitioning all_vts), "done"
  ordered_targets,      \* what _order_target_list returned
  versioned_targets,    \* all_vts, the argument of _partition_versioned_targets
  partition_size_hint,  \* its other argument
  todo,                 \* what `for vt in versioned_targets` has still to go through
  current_group,        \* the VtGroup: [vts, total_sources]
  res,                  \* the groups closed, each to become a VersionedTargetSet
  \* --- invalidation and ScalaCompile.execute
  bpc,                  \* where execute is: "idle", "loop", "compiling", "failed"
  sources,              \* target -> the version of its sources
  edits,                \* changes of sources so far
  store,                \* the invalidator's directory: a set of <<id, hash>>
  managers,             \* cache managers made so far; the last is the run's
  invalidation_check,   \* the InvalidationCheck of the run
  vt_valid,             \* target -> the valid flag of its VersionedTarget
  vts_valid,            \* the valid flags of invalid_vts_partitioned
  idx,                  \* the partition the loop of execute is at
  compiled,             \* the partitions that reached the compiler
  marked,               \* the partitions execute called update() on
  exit_codes,           \* what the compiler returned, partition by partition
  lastOp,               \* the last of check, force_invalidate, update and edit, and its partition
  basis,                \* target -> <<sources when it was last updated>>, or <<>>
  combined,             \* a call of from_versioned_targets and what it gave
  \* --- AggregatedTimings
  timings_by_path,      \* _timings_by_path
  tool_labels,          \* _tool_labels
  tpc,                  \* thread -> "idle", or "loaded" inside add_timing
  tcall,                \* thread -> the arguments of its add_timing
  loaded,               \* thread -> the value it read for +=
  returned,             \* label -> the seconds of the add_timing calls returned
  adds,                 \* calls of add_timing so far
  \* --- the reporting server
  srv,                  \* "down" or "up"
  allowed_clients,      \* Settings.allowed_clients
  request,              \* <<the last request>>
  response,             \* what was sent for it
  handler,              \* the prefix of the handler that ran for it, "" if none
  raised,               \* the exception do_GET caught for it, "" if none
  served,               \* requests answered so far
  \* --- the Report's lock
  lock,                 \* the threads that hold Report._lock
  rcall,                \* thread -> its call of a Report method and where it is
  \* --- the artifact cache's chains
  work_chains           \* the chains _write_to_artifact_cache submitted, with their Works' names

poolVars == <<pcMain, pending, closed, hooks, hooksRun, jobs, chains, taskq, outq,
              running, hpc, logged, emptySubmits, emptyCalls, syncRes, lateSubmit, used>>

reportVars == <<rstate, reporters, fileOpen, wmap, ustate, lockOp, emitter, stopped,
                produced, readPos, delivered, startedAt, endedAt, endMark>>

\* What the pool's operations leave alone, and what the report's do.
trackerVars == <<current_workunit, workunits, frames>>

cacheVars == <<ppc, ordered_targets, versioned_targets, partition_size_hint, todo,
               current_group, res>>

buildVars == <<bpc, sources, edits, store, managers, invalidation_check, vt_valid,
               vts_valid, idx, compiled, marked, exit_codes, lastOp, basis, combined>>

timingVars == <<timings_by_path, tool_labels, tpc, tcall, loaded, returned, adds>>

serverVars == <<srv, allowed_clients, request, response, handler, raised, served>>

lockVars == <<lock, rcall>>

artifactVars == <<work_chains>>

besidesPool == <<reportVars, trackerVars, cacheVars, buildVars, timingVars, serverVars, lockVars, artifactVars>>
besidesReport == <<poolVars, trackerVars, cacheVars, buildVars, timingVars, serverVars, lockVars, artifactVars>>
besidesTracker == <<poolVars, reportVars, cacheVars, buildVars, timingVars, serverVars, lockVars, artifactVars>>
besidesCache == <<poolVars, reportVars, trackerVars, buildVars, timingVars, serverVars, lockVars, artifactVars>>
besidesBuild == <<poolVars, reportVars, trackerVars, cacheVars, timingVars, serverVars, lockVars, artifactVars>>
besidesTimings == <<poolVars, reportVars, trackerVars, cacheVars, buildVars, serverVars, lockVars, artifactVars>>
besidesServer == <<poolVars, reportVars, trackerVars, cacheVars, buildVars, timingVars, lockVars, artifactVars>>
besidesLock == <<poolVars, reportVars, trackerVars, cacheVars, buildVars, timingVars,
                 serverVars, artifactVars>>

vars == <<poolVars, reportVars, trackerVars, cacheVars, buildVars, timingVars, serverVars, lockVars, artifactVars>>

\* ------------------------------------------------------------ values -----
\* Python's None.
None == <<>>

\* A Work's argument tuples: a Work of cardinality n has the tuples 1..n.
ArgsTuples(n) == [i \in 1..n |-> i]

\* What work.func returns when applied to argument tuple a.
Func(a) == <<"ret", a>>

\* A do_work without its return statement.
DoWorkSyncNoReturn(a) == None

\* do_work of submit_work_and_wait returns what _do_work returns.
DoWorkSync(a) == Func(a)

\* do_work of submit_async_work calls _do_work and returns nothing.
DoWorkAsync(a) == None

\* What the worker posts as an invocation's result.
DoWork(kind, a) == IF kind = "sync" THEN DoWorkSync(a) ELSE DoWorkAsync(a)


\* ------------------------------------------------- the pool's queues -----
\* map_async given the callback's result, callback([]), instead of the callback.
NewJobCallbackCalled(kind, n, c, s) ==
  [kind |-> kind, n |-> n, chain |-> c, step |-> s,
   inv |-> [i \in 1..n |-> "queued"],
   value |-> [i \in 1..n |-> None],
   left |-> n, cached |-> TRUE, ready |-> FALSE, success |-> TRUE,
   cbCalls |-> 1, cbArg |-> <<>>]

\* The MapResult that map_async / map creates for a Work of n argument tuples:
\* one slot per tuple, _number_left = n, entered in the pool's cache.
NewJob(kind, n, c, s) ==
  [kind |-> kind, n |-> n, chain |-> c, step |-> s,
   inv |-> [i \in 1..n |-> "queued"],
   value |-> [i \in 1..n |-> None],
   left |-> n, cached |-> TRUE, ready |-> FALSE, success |-> TRUE,
   cbCalls |-> 0, cbArg |-> None]

\* map_async / map with chunksize=1 puts one task per argument tuple, in order.
Enqueue(q, j, n) == q \o [i \in 1..n |-> <<j, i>>]

\* The condition lock is held by shutdown() from the end of its wait to its
\* return; every other holder takes and releases it within one step.
CondLockFree == pcMain \notin {"sd_join", "sd_hooks"}

\* ------------------------------------------------------ work chains -----
\* A submit_async_work without the test for the empty Work.
IsEmptyWorkNever(n) == FALSE

\* submit_async_work runs the callback at once for a Work without argument
\* tuples, and hands every other Work to the pool.
IsEmptyWork(n) == n = 0

\* submit_next: the iterator's next Works, from position `from`, are submitted
\* one after the other for as long as they are empty (their callback is
\* submit_next again); the result is the position of the first non-empty Work,
\* which goes to the pool, or Len(shape) + 1 when the iterator is exhausted.
RECURSIVE NextStep(_, _)
NextStep(shape, from) ==
  IF from > Len(shape) THEN Len(shape) + 1
  ELSE IF IsEmptyWork(shape[from]) THEN NextStep(shape, from + 1)
  ELSE from

\* What a Work of n argument tuples costs the client, and what a chain costs.
WorkCost(n) == IF n = 0 THEN 1 ELSE n

RECURSIVE ShapeCost(_)
ShapeCost(shape) ==
  IF shape = <<>> THEN 0 ELSE WorkCost(Head(shape)) + ShapeCost(Tail(shape))

ChainCost(shape) == IF shape = <<>> THEN 1 ELSE ShapeCost(shape)

\* The shapes of the work chains a budget b buys: the cardinality of each Work
\* of the chain, in order.
RECURSIVE Shapes(_)
Shapes(b) ==
  {<<>>} \cup UNION {{<<n>> \o rest : rest \in Shapes(b - WorkCost(n))} :
                     n \in {m \in 0..b : WorkCost(m) <= b}}

PoolInit ==
  /\ pcMain = "idle"
  /\ pending = 0
  /\ closed = FALSE
  /\ hooks = <<>>
  /\ hooksRun = <<>>
  /\ jobs = <<>>
  /\ chains = <<>>
  /\ taskq = <<>>
  /\ outq = <<>>
  /\ running = {}
  /\ hpc = <<"idle">>
  /\ logged = {}
  /\ emptySubmits = 0
  /\ emptyCalls = <<>>
  /\ syncRes = [job |-> 0, outcome |-> "none", value |-> None]
  /\ lateSubmit = FALSE
  /\ used = 0

\* ------------------------------------------------ the client thread -----
\* The hooks are named by their order of registration.
AddShutdownHook ==
  /\ pcMain = "idle"
  /\ Len(hooks) < MaxHooks
  /\ hooks' = Append(hooks, Len(hooks) + 1)
  /\ UNCHANGED <<pcMain, pending, closed, hooksRun, jobs, chains, taskq, outq, running,
                 hpc, logged, emptySubmits, emptyCalls, syncRes, lateSubmit, used, besidesPool>>

SubmitAsyncWork(n) ==
  /\ pcMain = "idle"
  /\ n = 0 => emptySubmits < MaxEmpty
  /\ emptySubmits' = IF n = 0 THEN emptySubmits + 1 ELSE emptySubmits
  /\ IF IsEmptyWork(n)
     THEN \* callback([]), and nothing goes to the pool
          /\ emptyCalls' = Append(emptyCalls, <<>>)
          /\ UNCHANGED <<jobs, taskq, used>>
     ELSE /\ used + WorkCost(n) <= MaxInv
          /\ used' = used + WorkCost(n)
          /\ jobs' = Append(jobs, NewJob("async", n, 0, 0))
          /\ taskq' = Enqueue(taskq, Len(jobs) + 1, n)
          /\ UNCHANGED emptyCalls
  /\ UNCHANGED <<pcMain, pending, closed, hooks, hooksRun, chains, outq, running, hpc,
                 logged, syncRes, lateSubmit, besidesPool>>

\* A submit_next that hands every remaining Work of the chain to the pool.
SubmitNextAll(shape, from) ==
  LET rest == {k \in from..Len(shape) : ~IsEmptyWork(shape[k])}
      RECURSIVE Sorted(_)
      Sorted(S) == IF S = {} THEN <<>>
                   ELSE LET m == CHOOSE x \in S : \A y \in S : x <= y
                        IN  <<m>> \o Sorted(S \ {m})
  IN  Sorted(rest)

\* The Works one call of submit_next hands to the pool, as positions in the
\* chain: the next non-empty Work, if the iterator has one.
SubmitNext(shape, from) ==
  IF NextStep(shape, from) <= Len(shape) THEN <<NextStep(shape, from)>> ELSE <<>>

\* Their jobs, and the task queue with their tasks added.
ChainJobs(c, shape, steps) ==
  [x \in 1..Len(steps) |-> NewJob("chain", shape[steps[x]], c, steps[x])]

RECURSIVE EnqueueAll(_, _, _)
EnqueueAll(q, first, js) ==
  IF js = <<>> THEN q
  ELSE EnqueueAll(Enqueue(q, first, Head(js).n), first + 1, Tail(js))

SubmitAsyncWorkChain(shape) ==
  /\ pcMain = "idle"
  /\ used + ChainCost(shape) <= MaxInv
  /\ used' = used + ChainCost(shape)
  /\ LET c == Len(chains) + 1
         new == ChainJobs(c, shape, SubmitNext(shape, 1))
     IN  IF new # <<>>
         THEN /\ pending' = pending + 1
              /\ chains' = Append(chains, [shape |-> shape, fails |-> 0, done |-> FALSE])
              /\ jobs' = jobs \o new
              /\ taskq' = EnqueueAll(taskq, Len(jobs) + 1, new)
         ELSE \* StopIteration in the client thread: incremented and decremented.
              /\ pending' = (pending + 1) - 1
              /\ chains' = Append(chains, [shape |-> shape, fails |-> 0, done |-> TRUE])
              /\ UNCHANGED <<jobs, taskq>>
  /\ UNCHANGED <<pcMain, closed, hooks, hooksRun, outq, running, hpc, logged,
                 emptySubmits, emptyCalls, syncRes, lateSubmit, besidesPool>>

SubmitWorkAndWait(n) ==
  /\ pcMain = "idle"
  /\ IF IsEmptyWork(n)
     THEN /\ syncRes' = [job |-> 0, outcome |-> "returned", value |-> <<>>]
          /\ UNCHANGED <<pcMain, jobs, taskq, used>>
     ELSE /\ used + WorkCost(n) <= MaxInv
          /\ used' = used + WorkCost(n)
          /\ jobs' = Append(jobs, NewJob("sync", n, 0, 0))
          /\ taskq' = Enqueue(taskq, Len(jobs) + 1, n)
          /\ syncRes' = [job |-> Len(jobs) + 1, outcome |-> "waiting", value |-> None]
          /\ pcMain' = "sync_wait"
  /\ UNCHANGED <<pending, closed, hooks, hooksRun, chains, outq, running, hpc, logged,
                 emptySubmits, emptyCalls, lateSubmit, besidesPool>>

\* pool.map returns MapResult.get(): it waits for _ready, then returns _value
\* or raises it.
MapGetReady(j) == jobs[j].ready

WorkAndWaitReturn ==
  /\ pcMain = "sync_wait"
  /\ MapGetReady(syncRes.job)
  /\ syncRes' = IF jobs[syncRes.job].success
                THEN [syncRes EXCEPT !.outcome = "returned", !.value = jobs[syncRes.job].value]
                ELSE [syncRes EXCEPT !.outcome = "raised"]
  /\ pcMain' = "idle"
  /\ UNCHANGED <<pending, closed, hooks, hooksRun, jobs, chains, taskq, outq, running,
                 hpc, logged, emptySubmits, emptyCalls, lateSubmit, used, besidesPool>>

\* shutdown(): taken the condition lock, wait while chains are pending.
Shutdown ==
  /\ pcMain = "idle"
  /\ pcMain' = "sd_wait"
  /\ UNCHANGED <<pending, closed, hooks, hooksRun, jobs, chains, taskq, outq, running,
                 hpc, logged, emptySubmits, emptyCalls, syncRes, lateSubmit, used, besidesPool>>

\* The loop condition of shutdown()'s wait.
MustWait == pending > 0

\* The wait is over: shutdown() keeps the condition lock and closes the pool.
ShutdownClose ==
  /\ pcMain = "sd_wait"
  /\ ~MustWait
  /\ closed' = TRUE
  /\ pcMain' = "sd_join"
  /\ UNCHANGED <<pending, hooks, hooksRun, jobs, chains, taskq, outq, running, hpc,
                 logged, emptySubmits, emptyCalls, syncRes, lateSubmit, used, besidesPool>>

\* A shutdown() that does not join the pool.
JoinSkipped == TRUE

\* pool.join() returns when the workers have run every task and ended, and the
\* result handler has handled every result of a job still in the cache and ended.
JoinReturns ==
  /\ taskq = <<>>
  /\ running = {}
  /\ outq = <<>>
  /\ hpc = <<"idle">>
  /\ \A j \in DOMAIN jobs : ~jobs[j].cached

ShutdownJoin ==
  /\ pcMain = "sd_join"
  /\ JoinReturns
  /\ pcMain' = "sd_hooks"
  /\ UNCHANGED <<pending, closed, hooks, hooksRun, jobs, chains, taskq, outq, running,
                 hpc, logged, emptySubmits, emptyCalls, syncRes, lateSubmit, used, besidesPool>>

\* The hooks shutdown() calls, in call order.
HooksToRun(hs) == hs

ShutdownHooks ==
  /\ pcMain = "sd_hooks"
  /\ hooksRun' = hooksRun \o HooksToRun(hooks)
  /\ pcMain' = "done"
  /\ UNCHANGED <<pending, closed, hooks, jobs, chains, taskq, outq, running, hpc,
                 logged, emptySubmits, emptyCalls, syncRes, lateSubmit, used, besidesPool>>

\* ----------------------------------------------- the worker threads -----
\* A free worker takes the task at the head of the queue and calls do_work.
TakeTask ==
  /\ taskq # <<>>
  /\ Cardinality(running) < NumWorkers
  /\ LET t == Head(taskq)
     IN  /\ running' = running \cup {[job |-> t[1], i |-> t[2], pc |-> "run"]}
         /\ jobs' = [jobs EXCEPT ![t[1]].inv[t[2]] = "running"]
  /\ taskq' = Tail(taskq)
  /\ UNCHANGED <<pcMain, pending, closed, hooks, hooksRun, chains, outq, hpc, logged,
                 emptySubmits, emptyCalls, syncRes, lateSubmit, used, besidesPool>>

\* The result a worker posts for invocation i of job j.
Result(j, i, ok) ==
  [job |-> j, i |-> i, ok |-> ok,
   val |-> IF ok THEN DoWork(jobs[j].kind, ArgsTuples(jobs[j].n)[i]) ELSE None]

\* work.func returns.
FuncReturn(t) ==
  /\ t \in running /\ t.pc = "run"
  /\ jobs' = [jobs EXCEPT ![t.job].inv[t.i] = "ok"]
  /\ outq' = Append(outq, Result(t.job, t.i, TRUE))
  /\ running' = running \ {t}
  /\ UNCHANGED <<pcMain, pending, closed, hooks, hooksRun, chains, taskq, hpc, logged,
                 emptySubmits, emptyCalls, syncRes, lateSubmit, used, besidesPool>>

\* work.func raises: in a chain's wrapper the except clause is entered, anywhere
\* else the worker posts the exception as the invocation's result.
FuncRaise(t) ==
  /\ t \in running /\ t.pc = "run"
  /\ jobs' = [jobs EXCEPT ![t.job].inv[t.i] = "raised"]
  /\ IF jobs[t.job].kind = "chain"
     THEN /\ running' = (running \ {t}) \cup {[t EXCEPT !.pc = "except"]}
          /\ UNCHANGED outq
     ELSE /\ running' = running \ {t}
          /\ outq' = Append(outq, Result(t.job, t.i, FALSE))
  /\ UNCHANGED <<pcMain, pending, closed, hooks, hooksRun, chains, taskq, hpc, logged,
                 emptySubmits, emptyCalls, syncRes, lateSubmit, used, besidesPool>>

\* A wrapper whose except clause does not re-raise.
WrapperSwallows == FALSE

\* wrapper re-raises what work.func raised.
WrapperReraises == TRUE

\* wrapper's except clause: under the condition lock, decrement and notify;
\* then log the error and re-raise, and the worker posts the exception.
WrapperExcept(t) ==
  /\ t \in running /\ t.pc = "except"
  /\ CondLockFree
  /\ pending' = pending - 1
  /\ chains' = [chains EXCEPT ![jobs[t.job].chain].fails = @ + 1]
  /\ logged' = logged \cup {<<t.job, t.i>>}
  /\ outq' = Append(outq, Result(t.job, t.i, ~WrapperReraises))
  /\ running' = running \ {t}
  /\ UNCHANGED <<pcMain, closed, hooks, hooksRun, jobs, taskq, hpc,
                 emptySubmits, emptyCalls, syncRes, lateSubmit, used, besidesPool>>

\* ------------------------------------------- the result-handler thread --
\* MapResult._set calls the callback when the last result of the job is in.
CallbackDue(left) == left = 0

\* The jobs the callback of chain job J submits (submit_next).
NextJobs(J) ==
  ChainJobs(J.chain, chains[J.chain].shape,
            SubmitNext(chains[J.chain].shape, J.step + 1))

\* The handler takes the result at the head of the result queue; a result of a
\* job no longer in the cache is dropped, any other goes to MapResult._set.
HandleResult ==
  /\ hpc = <<"idle">>
  /\ outq # <<>>
  /\ outq' = Tail(outq)
  /\ LET r == Head(outq)
         j == r.job
         J == jobs[j]
         set == [J EXCEPT !.value[r.i] = r.val, !.left = @ - 1]
         called == [set EXCEPT !.cbCalls = @ + 1, !.cbArg = set.value]
         off(K) == [K EXCEPT !.cached = FALSE, !.ready = TRUE]
     IN  IF ~J.cached
         THEN UNCHANGED <<jobs, taskq, hpc, lateSubmit>>
         ELSE IF ~r.ok
         THEN /\ jobs' = [jobs EXCEPT ![j] = off([J EXCEPT !.success = FALSE])]
              /\ UNCHANGED <<taskq, hpc, lateSubmit>>
         ELSE IF ~CallbackDue(set.left)
         THEN /\ jobs' = [jobs EXCEPT ![j] = set]
              /\ UNCHANGED <<taskq, hpc, lateSubmit>>
         ELSE IF J.kind = "sync"
         THEN /\ jobs' = [jobs EXCEPT ![j] = off(set)]
              /\ UNCHANGED <<taskq, hpc, lateSubmit>>
         ELSE IF J.kind = "async"
         THEN /\ jobs' = [jobs EXCEPT ![j] = off(called)]
              /\ UNCHANGED <<taskq, hpc, lateSubmit>>
         ELSE IF NextJobs(J) = <<>>
         THEN \* StopIteration: the callback goes for the condition lock.
              /\ jobs' = [jobs EXCEPT ![j] = called]
              /\ hpc' = <<"decr", j>>
              /\ UNCHANGED <<taskq, lateSubmit>>
         ELSE IF closed
         THEN \* map_async on a closed pool raises in the handler thread, which ends.
              /\ jobs' = [jobs EXCEPT ![j] = called]
              /\ hpc' = <<"dead">>
              /\ lateSubmit' = TRUE
              /\ UNCHANGED taskq
         ELSE /\ jobs' = [jobs EXCEPT ![j] = off(called)] \o NextJobs(J)
              /\ taskq' = EnqueueAll(taskq, Len(jobs) + 1, NextJobs(J))
              /\ UNCHANGED <<hpc, lateSubmit>>
  /\ UNCHANGED <<pcMain, pending, closed, hooks, hooksRun, chains, running, logged,
                 emptySubmits, emptyCalls, syncRes, used, besidesPool>>

\* submit_next at the end of the chain: under the condition lock, decrement
\* and notify; the callback returns and MapResult._set completes the job.
HandlerDecrement ==
  /\ hpc[1] = "decr"
  /\ CondLockFree
  /\ pending' = pending - 1
  /\ chains' = [chains EXCEPT ![jobs[hpc[2]].chain].done = TRUE]
  /\ jobs' = [jobs EXCEPT ![hpc[2]].cached = FALSE, ![hpc[2]].ready = TRUE]
  /\ hpc' = <<"idle">>
  /\ UNCHANGED <<pcMain, closed, hooks, hooksRun, taskq, outq, running, logged,
                 emptySubmits, emptyCalls, syncRes, lateSubmit, used, besidesPool>>

\* ------------------------------------------------------- the report ----
\* The labels of a work unit's output buffers.
Labels == {"stdout"}
Units == 1..MaxUnits
Streams == Units \X Labels

RECURSIVE SumOver(_, _)
SumOver(f, S) ==
  IF S = {} THEN 0
  ELSE LET x == CHOOSE y \in S : TRUE IN f[x] + SumOver(f, S \ {x})

\* A work unit's output buffer: the bytes of a stream are numbered from 1 in
\* the order they are appended; read() returns the bytes appended since the
\* last read and consumes them.
BufferRead(st) == [k \in 1..(produced[st] - readPos[st]) |-> readPos[st] + k]

ReportInit ==
  /\ rstate = "init"
  /\ reporters = <<>>
  /\ fileOpen = <<>>
  /\ wmap = {}
  /\ ustate = [u \in Units |-> "new"]
  /\ lockOp = <<>>
  /\ emitter = "off"
  /\ stopped = FALSE
  /\ produced = [st \in Streams |-> 0]
  /\ readPos = [st \in Streams |-> 0]
  /\ delivered = <<>>
  /\ startedAt = <<>>
  /\ endedAt = <<>>
  /\ endMark = [st \in Streams |-> 0]

\* Report.add_reporter, before the report is opened.
AddReporter(kind) ==
  /\ rstate = "init"
  /\ Len(reporters) < NumReporters
  /\ reporters' = Append(reporters, kind)
  /\ fileOpen' = Append(fileOpen, FALSE)
  /\ delivered' = Append(delivered, [st \in Streams |-> <<>>])
  /\ startedAt' = Append(startedAt, {})
  /\ endedAt' = Append(endedAt, {})
  /\ UNCHANGED <<rstate, wmap, ustate, lockOp, emitter, stopped, produced, readPos,
                 endMark, besidesReport>>

\* Report.open: open every reporter (a FileReporter opens its file), start the
\* emitter thread.
ReportOpen ==
  /\ rstate = "init"
  /\ Len(reporters) = NumReporters
  /\ rstate' = "opened"
  /\ fileOpen' = [r \in DOMAIN reporters |-> reporters[r] = "file"]
  /\ emitter' = "sleep"
  /\ UNCHANGED <<reporters, wmap, ustate, lockOp, stopped, produced, readPos,
                 delivered, startedAt, endedAt, endMark, besidesReport>>

\* A reporter's callback raises: FileReporter.handle_formatted_output writes
\* to self._file, which FileReporter.close has set to None.
Raises(r) == reporters[r] = "file" /\ ~fileOpen[r]

\* The reporters a loop `for reporter in self._reporters` calls: all of them,
\* or those up to the first whose callback raises.
Called ==
  LET bad == {r \in DOMAIN reporters : Raises(r)}
  IN  IF bad = {} THEN DOMAIN reporters
      ELSE {r \in DOMAIN reporters : \A b \in bad : r <= b}

LoopRaises == \E r \in DOMAIN reporters : Raises(r)

\* Report.start_workunit, under the lock: register the unit, tell the reporters.
StartWorkunit(u) ==
  /\ rstate = "opened"
  /\ ustate[u] = "new"
  /\ \A v \in Units : v < u => ustate[v] # "new"
  /\ lockOp = <<>>
  /\ wmap' = wmap \cup {u}
  /\ startedAt' = [r \in DOMAIN reporters |->
                     IF r \in Called THEN startedAt[r] \cup {u} ELSE startedAt[r]]
  /\ ustate' = [ustate EXCEPT ![u] = "open"]
  /\ UNCHANGED <<rstate, reporters, fileOpen, lockOp, emitter, stopped, produced,
                 readPos, delivered, endedAt, endMark, besidesReport>>

\* A producer appends a byte to an output buffer of a started unit.
Produce(st) ==
  /\ ustate[st[1]] \in {"open", "ending"}
  /\ SumOver(produced, Streams) < MaxBytes
  /\ produced' = [produced EXCEPT ![st] = @ + 1]
  /\ UNCHANGED <<rstate, reporters, fileOpen, wmap, ustate, lockOp, emitter, stopped,
                 readPos, delivered, startedAt, endedAt, endMark, besidesReport>>

\* The emitter thread's period is over and it has not been told to stop.
EmitterWake ==
  /\ emitter = "sleep"
  /\ ~stopped
  /\ emitter' = "woke"
  /\ UNCHANGED <<rstate, reporters, fileOpen, wmap, ustate, lockOp, stopped, produced,
                 readPos, delivered, startedAt, endedAt, endMark, besidesReport>>

\* A _notify that goes through no buffer.
NotifyTodoNothing == {}

\* What _notify goes through: the buffers of the units registered when it starts.
NotifyTodo == wmap \X Labels

\* Report.flush in the emitter thread: take the lock, start _notify.
FlushBegin ==
  /\ emitter = "woke"
  /\ lockOp = <<>>
  /\ lockOp' = [op |-> "flush", unit |-> 0, todo |-> NotifyTodo]
  /\ emitter' = "flushing"
  /\ UNCHANGED <<rstate, reporters, fileOpen, wmap, ustate, stopped, produced, readPos,
                 delivered, startedAt, endedAt, endMark, besidesReport>>

\* Report.end_workunit: take the lock, start _notify.
EndWorkunitBegin(u) ==
  /\ ustate[u] = "open"
  /\ lockOp = <<>>
  /\ lockOp' = [op |-> "end", unit |-> u, todo |-> NotifyTodo]
  /\ ustate' = [ustate EXCEPT ![u] = "ending"]
  /\ endMark' = [st \in Streams |-> IF st[1] = u THEN produced[st] ELSE endMark[st]]
  /\ UNCHANGED <<rstate, reporters, fileOpen, wmap, emitter, stopped, produced, readPos,
                 delivered, startedAt, endedAt, besidesReport>>

\* Report.close: stop the emitter thread, take the lock, start _notify.
ReportClose ==
  /\ rstate = "opened"
  /\ lockOp = <<>>
  /\ stopped' = TRUE
  /\ rstate' = "closing"
  /\ lockOp' = [op |-> "close", unit |-> 0, todo |-> NotifyTodo]
  /\ UNCHANGED <<reporters, fileOpen, wmap, ustate, emitter, produced, readPos,
                 delivered, startedAt, endedAt, endMark, besidesReport>>

\* A reporter that puts what it is given before what it has written.
HandleOutputInFront(got, s) == s \o got

\* Reporter.handle_output: the reporter writes s after what it has written
\* (sys.stdout.write, self._file.write).
HandleOutput(got, s) == got \o s

\* The reporters whose handle_output _notify calls with what it has read.
Notified(s) == IF Len(s) > 0 THEN Called ELSE {}

\* An exception leaves the `with self._lock` block of the operation under way.
Abort ==
  /\ lockOp' = <<>>
  /\ emitter' = IF lockOp.op = "flush" THEN "dead" ELSE emitter
  /\ ustate' = IF lockOp.op = "end" THEN [ustate EXCEPT ![lockOp.unit] = "aborted"] ELSE ustate
  /\ rstate' = IF lockOp.op = "close" THEN "close_failed" ELSE rstate

\* _notify, one buffer: read it and pass what was read to the reporters.
NotifyStep(st) ==
  /\ lockOp # <<>>
  /\ st \in lockOp.todo
  /\ LET s == BufferRead(st)
     IN  /\ readPos' = [readPos EXCEPT ![st] = produced[st]]
         /\ delivered' = [r \in DOMAIN reporters |->
                            IF r \in Notified(s)
                            THEN [delivered[r] EXCEPT ![st] = HandleOutput(@, s)]
                            ELSE delivered[r]]
         /\ IF Len(s) > 0 /\ LoopRaises
            THEN Abort
            ELSE /\ lockOp' = [lockOp EXCEPT !.todo = @ \ {st}]
                 /\ UNCHANGED <<emitter, ustate, rstate>>
  /\ UNCHANGED <<reporters, fileOpen, wmap, stopped, produced, startedAt, endedAt,
                 endMark, besidesReport>>

\* Report.flush returns; the emitter thread sleeps again, or ends if stopped.
FlushEnd ==
  /\ lockOp # <<>> /\ lockOp.op = "flush" /\ lockOp.todo = {}
  /\ lockOp' = <<>>
  /\ emitter' = IF stopped THEN "off" ELSE "sleep"
  /\ UNCHANGED <<rstate, reporters, fileOpen, wmap, ustate, stopped, produced, readPos,
                 delivered, startedAt, endedAt, endMark, besidesReport>>

\* Report.end_workunit after _notify: tell the reporters, unregister the unit.
EndWorkunitFinish ==
  /\ lockOp # <<>> /\ lockOp.op = "end" /\ lockOp.todo = {}
  /\ endedAt' = [r \in DOMAIN reporters |->
                   IF r \in Called THEN endedAt[r] \cup {lockOp.unit} ELSE endedAt[r]]
  /\ IF LoopRaises
     THEN /\ Abort
          /\ UNCHANGED wmap
     ELSE /\ wmap' = wmap \ {lockOp.unit}
          /\ ustate' = [ustate EXCEPT ![lockOp.unit] = "ended"]
          /\ lockOp' = <<>>
          /\ UNCHANGED <<emitter, rstate>>
  /\ UNCHANGED <<reporters, fileOpen, stopped, produced, readPos, delivered, startedAt,
                 endMark, besidesReport>>

\* Report.close after _notify: close the reporters (a FileReporter closes its file).
ReportCloseFinish ==
  /\ lockOp # <<>> /\ lockOp.op = "close" /\ lockOp.todo = {}
  /\ fileOpen' = [r \in DOMAIN reporters |-> FALSE]
  /\ rstate' = "closed"
  /\ lockOp' = <<>>
  /\ UNCHANGED <<reporters, wmap, ustate, emitter, stopped, produced, readPos,
                 delivered, startedAt, endedAt, endMark, besidesReport>>

NextReport ==
  \/ \E kind \in {"console", "file"} : AddReporter(kind)
  \/ ReportOpen
  \/ \E u \in Units : StartWorkunit(u)
  \/ \E st \in Streams : Produce(st)
  \/ EmitterWake
  \/ FlushBegin
  \/ \E u \in Units : EndWorkunitBegin(u)
  \/ ReportClose
  \/ \E st \in Streams : NotifyStep(st)
  \/ FlushEnd
  \/ EndWorkunitFinish
  \/ ReportCloseFinish

\* -------------------------------------------------- the run tracker ----
Threads == 1..NumThreads
Root == 1

\* The outcomes by severity, the worst first.
Severity(o) ==
  CASE o = "FAILURE" -> 1 [] o = "WARNING" -> 2 [] o = "SUCCESS" -> 3 [] o = "UNKNOWN" -> 4

\* WorkUnit.set_outcome: a unit keeps the worst outcome it has been set to.
SetOutcome(old, new) == IF Severity(new) < Severity(old) THEN new ELSE old

\* WorkUnit(parent=p, ...): a unit with no outcome yet.  by, entry, warned,
\* body, left and after record the scope that created it: its thread, the
\* unit that thread was in, what its body did, and the current unit it left.
WorkUnit(p, t, in) ==
  [parent |-> p, outcome |-> "UNKNOWN", starts |-> 0, ends |-> 0,
   startEvents |-> 0, endEvents |-> 0,
   by |-> t, entry |-> in, warned |-> FALSE, body |-> "none",
   left |-> "no", after |-> 0]

\* RunTracker.__init__: the root unit is started, reported and made current.
TrackerInit ==
  /\ workunits = <<[WorkUnit(0, 0, 0) EXCEPT !.starts = 1, !.startEvents = 1]>>
  /\ current_workunit = Root
  /\ frames = [t \in Threads |-> <<>>]

Top(t) == frames[t][Len(frames[t])]
At(t, pc) == frames[t] # <<>> /\ Top(t).pc = pc
Goto(t, pc) == [frames EXCEPT ![t][Len(frames[t])].pc = pc]
Pop(t) == [frames EXCEPT ![t] = SubSeq(@, 1, Len(@) - 1)]

\* The unit a thread is in: that of its innermost scope, or the root.
InUnit(t) == IF frames[t] = <<>> THEN Root ELSE Top(t).made

\* An exception leaves new_work_scope where it is: the scope is left with
\* what remains of it not done.
Crash(t) ==
  /\ frames' = Pop(t)
  /\ workunits' = [workunits EXCEPT ![Top(t).made].left = "crashed",
                                    ![Top(t).made].after = current_workunit]
  /\ UNCHANGED current_workunit

\* new_work_scope is called, by a thread outside any scope or in a scope's
\* body: WorkUnit(parent=self._current_workunit, ...) is constructed.
EnterScope(t) ==
  /\ frames[t] = <<>> \/ At(t, "body")
  /\ Len(workunits) <= MaxScopes
  /\ workunits' = Append(workunits, WorkUnit(current_workunit, t, InUnit(t)))
  /\ frames' = [frames EXCEPT ![t] = Append(@, [pc |-> "assign", made |-> Len(workunits) + 1,
                                                got |-> 0, raised_exception |-> FALSE,
                                                read |-> 0])]
  /\ UNCHANGED <<current_workunit, besidesTracker>>

\* self._current_workunit = <the new unit>
AssignCurrent(t) ==
  /\ At(t, "assign")
  /\ current_workunit' = Top(t).made
  /\ frames' = Goto(t, "start")
  /\ UNCHANGED <<workunits, besidesTracker>>

\* self._current_workunit.start(); raised_exception = True
StartCurrent(t) ==
  /\ At(t, "start")
  /\ IF current_workunit = 0
     THEN Crash(t)
     ELSE /\ workunits' = [workunits EXCEPT ![current_workunit].starts = @ + 1]
          /\ frames' = [Goto(t, "report_start") EXCEPT ![t][Len(frames[t])].raised_exception = TRUE]
          /\ UNCHANGED current_workunit
  /\ UNCHANGED besidesTracker

\* self.report.start_workunit(self._current_workunit), in the try block.
ReportStart(t) ==
  /\ At(t, "report_start")
  /\ IF current_workunit = 0
     THEN /\ frames' = Goto(t, "fin_outcome")
          /\ UNCHANGED workunits
     ELSE /\ workunits' = [workunits EXCEPT ![current_workunit].startEvents = @ + 1]
          /\ frames' = Goto(t, "yield")
  /\ UNCHANGED <<current_workunit, besidesTracker>>

\* yield self._current_workunit: the body starts with the unit it is given.
YieldCurrent(t) ==
  /\ At(t, "yield")
  /\ frames' = [Goto(t, "body") EXCEPT ![t][Len(frames[t])].got = current_workunit]
  /\ workunits' = [workunits EXCEPT ![Top(t).made].body = "running"]
  /\ UNCHANGED <<current_workunit, besidesTracker>>

\* The body sets the outcome of the unit it was given to WARNING.
BodySetsWarning(t) ==
  /\ At(t, "body")
  /\ Top(t).got # 0
  /\ ~workunits[Top(t).made].warned
  /\ workunits' = [workunits EXCEPT
                     ![Top(t).got].outcome = SetOutcome(@, "WARNING"),
                     ![Top(t).made].warned = TRUE]
  /\ UNCHANGED <<current_workunit, frames, besidesTracker>>

\* The body returns: raised_exception = False, then the finally block.
BodyReturns(t) ==
  /\ At(t, "body")
  /\ frames' = [Goto(t, "fin_outcome") EXCEPT ![t][Len(frames[t])].raised_exception = FALSE]
  /\ workunits' = [workunits EXCEPT ![Top(t).made].body = "returned"]
  /\ UNCHANGED <<current_workunit, besidesTracker>>

\* The body raises: the finally block, with raised_exception still True.
BodyRaises(t) ==
  /\ At(t, "body")
  /\ frames' = Goto(t, "fin_outcome")
  /\ workunits' = [workunits EXCEPT ![Top(t).made].body = "raised"]
  /\ UNCHANGED <<current_workunit, besidesTracker>>

\* The outcome the finally block sets.
ExitOutcome(raised_exception) == IF raised_exception THEN "FAILURE" ELSE "SUCCESS"

\* self._current_workunit.set_outcome(...)
FinallySetOutcome(t) ==
  /\ At(t, "fin_outcome")
  /\ IF current_workunit = 0
     THEN Crash(t)
     ELSE /\ workunits' = [workunits EXCEPT ![current_workunit].outcome =
                             SetOutcome(@, ExitOutcome(Top(t).raised_exception))]
          /\ frames' = Goto(t, "fin_end")
          /\ UNCHANGED current_workunit
  /\ UNCHANGED besidesTracker

\* self._current_workunit.end()
FinallyEnd(t) ==
  /\ At(t, "fin_end")
  /\ IF current_workunit = 0
     THEN Crash(t)
     ELSE /\ workunits' = [workunits EXCEPT ![current_workunit].ends = @ + 1]
          /\ frames' = Goto(t, "fin_report")
          /\ UNCHANGED current_workunit
  /\ UNCHANGED besidesTracker

\* self.report.end_workunit(self._current_workunit)
FinallyReportEnd(t) ==
  /\ At(t, "fin_report")
  /\ IF current_workunit = 0
     THEN Crash(t)
     ELSE /\ workunits' = [workunits EXCEPT ![current_workunit].endEvents = @ + 1]
          /\ frames' = Goto(t, "fin_read")
          /\ UNCHANGED current_workunit
  /\ UNCHANGED besidesTracker

\* self._current_workunit.parent is evaluated ...
FinallyReadParent(t) ==
  /\ At(t, "fin_read")
  /\ IF current_workunit = 0
     THEN Crash(t)
     ELSE /\ frames' = [Goto(t, "fin_write") EXCEPT
                          ![t][Len(frames[t])].read = workunits[current_workunit].parent]
          /\ UNCHANGED <<current_workunit, workunits>>
  /\ UNCHANGED besidesTracker

\* ... and assigned to self._current_workunit: the scope is left.
FinallyWriteCurrent(t) ==
  /\ At(t, "fin_write")
  /\ current_workunit' = Top(t).read
  /\ workunits' = [workunits EXCEPT ![Top(t).made].left = "exited",
                                    ![Top(t).made].after = Top(t).read]
  /\ frames' = Pop(t)
  /\ UNCHANGED besidesTracker

NextTracker ==
  \E t \in Threads :
    \/ EnterScope(t)
    \/ AssignCurrent(t)
    \/ StartCurrent(t)
    \/ ReportStart(t)
    \/ YieldCurrent(t)
    \/ BodySetsWarning(t)
    \/ BodyReturns(t)
    \/ BodyRaises(t)
    \/ FinallySetOutcome(t)
    \/ FinallyEnd(t)
    \/ FinallyReportEnd(t)
    \/ FinallyReadParent(t)
    \/ FinallyWriteCurrent(t)

\* ------------------------------------------------ the cache manager ----
Targets == 1..MaxTargets

\* The orders of a set of targets: sort_targets puts them in an order of
\* their dependencies, and _order_target_list keeps those of the set.
RECURSIVE OrderTargetList(_)
OrderTargetList(T) ==
  IF T = {} THEN {<<>>}
  ELSE UNION {{<<x>> \o rest : rest \in OrderTargetList(T \ {x})} : x \in T}

\* _sort_and_validate_targets: one VersionedTarget for each target, in order;
\* num_sources is the number of sources of each target.
SortAndValidateTargets(ordered, num_sources) ==
  [i \in 1..Len(ordered) |-> [target |-> ordered[i], num_sources |-> num_sources[ordered[i]]]]

\* The calls check(targets, partition_size_hint) of a task: the ordered
\* targets, their numbers of sources and the hint.
BoundedChecks ==
  UNION {{[ordered |-> o, num_sources |-> n, hint |-> h] :
            o \in OrderTargetList(T), n \in [T -> 1..MaxSources], h \in 1..MaxHint} :
         T \in SUBSET Targets}

\* The check of six targets with 400, 400, 400, 800, 200 and 200 sources and
\* a hint of 1000.
ScenarioS1 ==
  [ordered |-> <<1, 2, 3, 4, 5, 6>>,
   num_sources |-> <<400, 400, 400, 800, 200, 200>>,
   hint |-> 1000]

Checks == BoundedChecks \cup {ScenarioS1}

\* VtGroup()
VtGroup == [vts |-> <<>>, total_sources |-> 0]

CacheInit ==
  /\ ppc = "idle"
  /\ ordered_targets = <<>>
  /\ versioned_targets = <<>>
  /\ partition_size_hint = 0
  /\ todo = <<>>
  /\ current_group = VtGroup
  /\ res = <<>>

\* add_to_current_group: the vt is appended; total_sources is left as it is.
AddToCurrentGroup(g, vt) == [g EXCEPT !.vts = Append(@, vt)]

\* A close_current_group that closes an empty group too.
CloseCurrentGroupUnchecked(st) ==
  [res |-> Append(st.res, st.g.vts), g |-> VtGroup]

\* close_current_group: a non-empty group becomes a VersionedTargetSet of res
\* and the group starts again.
CloseCurrentGroup(st) ==
  IF Len(st.g.vts) > 0
  THEN [res |-> Append(st.res, st.g.vts), g |-> VtGroup]
  ELSE st

\* current_group.total_sources > 1.5 * partition_size_hint and len(current_group.vts) > 1
TooBig(g, hint) == 2 * g.total_sources > 3 * hint /\ Len(g.vts) > 1

\* current_group.total_sources > partition_size_hint
OverHint(g, hint) == g.total_sources > hint

\* The body of `for vt in versioned_targets`.
LoopBody(st, vt, hint) ==
  LET added == [st EXCEPT !.g = AddToCurrentGroup(st.g, vt)]
      popped == [added EXCEPT !.g.vts = SubSeq(@, 1, Len(@) - 1)]
      shut == CloseCurrentGroup(popped)
  IN  IF TooBig(added.g, hint)
      THEN [shut EXCEPT !.g = AddToCurrentGroup(shut.g, vt)]
      ELSE IF OverHint(added.g, hint)
           THEN CloseCurrentGroup(added)
           ELSE added

\* CacheManager.check with a hint: the targets are ordered, each gets its
\* VersionedTarget, and InvalidationCheck starts to partition all_vts.
Check(c) ==
  /\ ppc = "idle"
  /\ ordered_targets' = c.ordered
  /\ versioned_targets' = SortAndValidateTargets(c.ordered, c.num_sources)
  /\ partition_size_hint' = c.hint
  /\ todo' = versioned_targets'
  /\ current_group' = VtGroup
  /\ res' = <<>>
  /\ ppc' = "loop"
  /\ UNCHANGED besidesCache

\* One turn of the loop of _partition_versioned_targets.
PartitionLoop ==
  /\ ppc = "loop"
  /\ todo # <<>>
  /\ LET st == LoopBody([res |-> res, g |-> current_group], Head(todo), partition_size_hint)
     IN  /\ res' = st.res
         /\ current_group' = st.g
  /\ todo' = Tail(todo)
  /\ UNCHANGED <<ppc, ordered_targets, versioned_targets, partition_size_hint, besidesCache>>

\* After the loop: close the last group, if any, and return res.
PartitionReturn ==
  /\ ppc = "loop"
  /\ todo = <<>>
  /\ LET st == CloseCurrentGroup([res |-> res, g |-> current_group])
     IN  /\ res' = st.res
         /\ current_group' = st.g
  /\ ppc' = "done"
  /\ UNCHANGED <<ordered_targets, versioned_targets, partition_size_hint, todo, besidesCache>>

NextCache ==
  \/ \E c \in Checks : Check(c)
  \/ PartitionLoop
  \/ PartitionReturn

\* ------------------------------------ invalidation and ScalaCompile -----
\* The dependencies of the targets: target 1 depends on target 2.
Dependencies(t) == IF t = 1 THEN {2} ELSE {}

\* A target with all it depends on, directly or not.
RECURSIVE Closure(_)
Closure(t) == {t} \cup UNION {Closure(d) : d \in Dependencies(t)}

\* _order_target_list of a cache manager: from least to most dependent, which
\* with these dependencies is from the highest target to the lowest.
RECURSIVE LeastDependentFirst(_)
LeastDependentFirst(T) ==
  IF T = {} THEN <<>>
  ELSE LET x == CHOOSE y \in T : \A z \in T : z <= y
       IN  <<x>> \o LeastDependentFirst(T \ {x})

\* A cache key's id for a target.
TargetId(t) == [kind |-> "target", target |-> t, digest |-> {}]

\* CacheKeyGenerator.key_for_target: the hash covers the target's sources
\* and, when transitive, the sources of all it depends on.  A hash is written
\* as the set of what it digests, so that equal hashes mean equal contents.
KeyForTarget(t, src, transitive) ==
  [id |-> TargetId(t),
   hash |-> {{<<d, src[d]>> : d \in IF transitive THEN Closure(t) ELSE {t}}}]

\* combine_cache_keys: one key is itself; several give a synthetic id and a
\* hash of the sorted hashes.
CombineCacheKeys(keys) ==
  IF Len(keys) = 1 THEN keys[1]
  ELSE LET h == UNION {keys[i].hash : i \in 1..Len(keys)}
       IN  [id |-> [kind |-> "synthetic", target |-> 0, digest |-> h], hash |-> h]

\* BuildInvalidator over its directory, written as a set of <<id, hash>>.
NeedsUpdate(st, k) == <<k.id, k.hash>> \notin st
InvalidatorUpdate(st, k) == {p \in st : p[1] # k.id} \cup {<<k.id, k.hash>>}
InvalidatorForceInvalidate(st, k) == {p \in st : p[1] # k.id}

\* A _key_for that never asks for a transitive key.
KeyForOwnSources(t, src, invalidate_dependents) == KeyForTarget(t, src, FALSE)

\* CacheManager._key_for, called with transitive=self._invalidate_dependents.
KeyFor(t, src, invalidate_dependents) == KeyForTarget(t, src, invalidate_dependents)

\* self.invalidated(scala_targets, invalidate_dependents=True, ...)
InvalidateDependents == TRUE

\* VersionedTarget(cache_manager, target, cache_key): a set of itself.
VersionedTarget(m, t, key) ==
  [manager |-> m, targets |-> <<t>>, keys |-> <<key>>, cache_key |-> key, single |-> TRUE]

\* VersionedTargetSet(cache_manager, versioned_targets)
VersionedTargetSet(m, vts) ==
  LET keys == [i \in 1..Len(vts) |-> vts[i].cache_key]
  IN  [manager |-> m,
       targets |-> [i \in 1..Len(vts) |-> vts[i].targets[1]],
       keys |-> keys,
       cache_key |-> CombineCacheKeys(keys),
       single |-> FALSE]

\* A from_versioned_targets that does not compare the cache managers.
FromVersionedTargetsUnchecked(vts) ==
  [raised |-> "", made |-> <<VersionedTargetSet(vts[1].manager, vts)>>]

\* VersionedTargetSet.from_versioned_targets: the first one's cache manager
\* must be everyone's, or ValueError is raised and no set is made.
FromVersionedTargets(vts) ==
  LET cache_manager == vts[1].manager
  IN  IF \E i \in 1..Len(vts) : vts[i].manager # cache_manager
      THEN [raised |-> "ValueError", made |-> <<>>]
      ELSE [raised |-> "", made |-> <<VersionedTargetSet(cache_manager, vts)>>]

\* _sort_and_validate_targets of a cache manager: each target with its key.
VersionedTargetsOf(m, ordered, src) ==
  [i \in 1..Len(ordered) |->
     VersionedTarget(m, ordered[i], KeyFor(ordered[i], src, InvalidateDependents))]

\* _partition_versioned_targets as a whole: the loop, the last close, and a
\* VersionedTargetSet from each group.
RECURSIVE PartitionFrom(_, _, _)
PartitionFrom(st, vts, hint) ==
  IF vts = <<>> THEN CloseCurrentGroup(st).res
  ELSE PartitionFrom(LoopBody(st, Head(vts), hint), Tail(vts), hint)

PartitionVersionedTargets(vts, hint) ==
  LET groups == PartitionFrom([res |-> <<>>, g |-> VtGroup], vts, hint)
  IN  [i \in 1..Len(groups) |-> FromVersionedTargets(groups[i]).made[1]]

\* The partition_size_hint of a call: given or not, and its number.  The
\* calls are without a hint, with 0 and with a hint above 0.
NoHint == [given |-> FALSE, hint |-> 0]
Hints == {NoHint} \cup {[given |-> TRUE, hint |-> h] : h \in {0, MaxHint}}

\* A test of the hint that takes 0 for a hint.
IsNotNone(h) == h.given

\* `if partition_size_hint`: None and 0 are false.
Truthy(h) == h.given /\ h.hint # 0

\* InvalidationCheck(all_vts, invalid_vts, partition_size_hint)
InvalidationCheck(all_vts, invalid_vts, h) ==
  [all_vts |-> all_vts,
   invalid_vts |-> invalid_vts,
   all_vts_partitioned |->
     IF Truthy(h) THEN PartitionVersionedTargets(all_vts, h.hint) ELSE all_vts,
   invalid_vts_partitioned |->
     IF Truthy(h) THEN PartitionVersionedTargets(invalid_vts, h.hint) ELSE invalid_vts,
   hint |-> h]

\* CacheManager.check: the invalid ones are those whose key needs an update.
CacheManagerCheck(m, ordered, src, st, h) ==
  LET all_vts == VersionedTargetsOf(m, ordered, src)
      invalid_vts == SelectSeq(all_vts, LAMBDA vt : NeedsUpdate(st, vt.cache_key))
  IN  InvalidationCheck(all_vts, invalid_vts, h)

RECURSIVE UpdateAll(_, _)
UpdateAll(st, keys) ==
  IF keys = <<>> THEN st ELSE UpdateAll(InvalidatorUpdate(st, Head(keys)), Tail(keys))

RECURSIVE ForceInvalidateAll(_, _)
ForceInvalidateAll(st, keys) ==
  IF keys = <<>> THEN st
  ELSE ForceInvalidateAll(InvalidatorForceInvalidate(st, Head(keys)), Tail(keys))

\* An update that leaves out the key of the set.
CacheManagerUpdateMembersOnly(st, vts) ==
  [store |-> UpdateAll(st, vts.keys), valid |-> TRUE]

\* An update that leaves out the keys of the members.
CacheManagerUpdateSetOnly(st, vts) ==
  [store |-> InvalidatorUpdate(st, vts.cache_key), valid |-> TRUE]

\* CacheManager.update: every member's key, then the set's; all marked valid.
CacheManagerUpdate(st, vts) ==
  [store |-> InvalidatorUpdate(UpdateAll(st, vts.keys), vts.cache_key), valid |-> TRUE]

\* CacheManager.force_invalidate: the same with force_invalidate and False.
CacheManagerForceInvalidate(st, vts) ==
  [store |-> InvalidatorForceInvalidate(ForceInvalidateAll(st, vts.keys), vts.cache_key),
   valid |-> FALSE]

\* A compile step that goes on after a failed compile.
TaskErrorNever(code) == FALSE

\* `if self._zinc_utils.compile(...): raise TaskError('Compile failed.')`
TaskErrorRaised(code) == code # 0

NoCheck == InvalidationCheck(<<>>, <<>>, NoHint)
NoOp == [op |-> "", k |-> 0]

BuildInit ==
  /\ bpc = "idle"
  /\ sources = [t \in Targets |-> 0]
  /\ edits = 0
  /\ store = {}
  /\ managers = 0
  /\ invalidation_check = NoCheck
  /\ vt_valid = [t \in Targets |-> FALSE]
  /\ vts_valid = <<>>
  /\ idx = 0
  /\ compiled = {}
  /\ marked = {}
  /\ exit_codes = <<>>
  /\ lastOp = NoOp
  /\ basis = [t \in Targets |-> <<>>]
  /\ combined = <<>>

\* The sources of a target change between two runs of the task.
EditSources(t) ==
  /\ bpc \in {"idle", "failed"}
  /\ edits < MaxEdits
  /\ edits' = edits + 1
  /\ sources' = [sources EXCEPT ![t] = @ + 1]
  /\ lastOp' = [op |-> "edit", k |-> 0]
  /\ combined' = <<>>
  /\ UNCHANGED <<bpc, store, managers, invalidation_check, vt_valid, vts_valid, idx,
                 compiled, marked, exit_codes, basis, besidesBuild>>

\* ScalaCompile.execute up to its loop: a cache manager of this run checks
\* the targets, with the hint of the task's options.
Execute(h) ==
  /\ bpc \in {"idle", "failed"}
  /\ managers < MaxRuns
  /\ managers' = managers + 1
  /\ LET ic == CacheManagerCheck(managers', LeastDependentFirst(Targets), sources, store, h)
     IN  /\ invalidation_check' = ic
         /\ vt_valid' = [t \in Targets |->
              \E i \in 1..Len(ic.all_vts) :
                /\ ic.all_vts[i].targets[1] = t
                /\ ~NeedsUpdate(store, ic.all_vts[i].cache_key)]
         /\ vts_valid' = [i \in 1..Len(ic.invalid_vts_partitioned) |->
              ~NeedsUpdate(store, ic.invalid_vts_partitioned[i].cache_key)]
  /\ combined' = <<>>
  /\ idx' = 1
  /\ compiled' = {}
  /\ marked' = {}
  /\ exit_codes' = <<>>
  /\ lastOp' = [op |-> "check", k |-> 0]
  /\ bpc' = "loop"
  /\ UNCHANGED <<sources, edits, store, basis, besidesBuild>>

\* The valid flags of a set and of its members.
SetValid(k, b) ==
  LET vts == invalidation_check.invalid_vts_partitioned[k]
  IN  /\ vts_valid' = [vts_valid EXCEPT ![k] = b]
      /\ vt_valid' = [t \in Targets |->
           IF \E i \in 1..Len(vts.targets) : vts.targets[i] = t THEN b ELSE vt_valid[t]]

\* _process_target_partition up to the compiler: the partition is
\* invalidated by force, then the compiler runs.
ProcessTargetPartition ==
  /\ bpc = "loop"
  /\ idx <= Len(invalidation_check.invalid_vts_partitioned)
  /\ LET vts == invalidation_check.invalid_vts_partitioned[idx]
         r == CacheManagerForceInvalidate(store, vts)
     IN  /\ store' = r.store
         /\ SetValid(idx, r.valid)
         /\ basis' = [t \in Targets |->
              IF \E i \in 1..Len(vts.targets) : vts.targets[i] = t THEN <<>> ELSE basis[t]]
  /\ compiled' = compiled \cup {idx}
  /\ lastOp' = [op |-> "force_invalidate", k |-> idx]
  /\ bpc' = "compiling"
  /\ UNCHANGED <<sources, edits, managers, invalidation_check, idx, marked,
                 exit_codes, combined, besidesBuild>>

\* The compiler returns: a non-zero code raises TaskError out of execute;
\* with zero, execute goes on to vts.update() and to the next partition.
CompileReturns(code) ==
  /\ bpc = "compiling"
  /\ exit_codes' = Append(exit_codes, code)
  /\ IF TaskErrorRaised(code)
     THEN /\ bpc' = "failed"
          /\ UNCHANGED <<store, vt_valid, vts_valid, idx, marked, lastOp, basis>>
     ELSE LET vts == invalidation_check.invalid_vts_partitioned[idx]
              r == CacheManagerUpdate(store, vts)
          IN  /\ store' = r.store
              /\ SetValid(idx, r.valid)
              /\ basis' = [t \in Targets |->
                   IF \E i \in 1..Len(vts.targets) : vts.targets[i] = t
                   THEN <<sources>> ELSE basis[t]]
              /\ marked' = marked \cup {idx}
              /\ lastOp' = [op |-> "update", k |-> idx]
              /\ idx' = idx + 1
              /\ bpc' = "loop"
  /\ UNCHANGED <<sources, edits, managers, invalidation_check, compiled, combined, besidesBuild>>

\* The loop of execute is over and execute returns.
ExecuteReturns ==
  /\ bpc = "loop"
  /\ idx > Len(invalidation_check.invalid_vts_partitioned)
  /\ bpc' = "idle"
  /\ UNCHANGED <<sources, edits, store, managers, invalidation_check, vt_valid,
                 vts_valid, idx, compiled, marked, exit_codes, lastOp, basis, combined, besidesBuild>>

\* The VersionedTargets of the last check.
AllVts == {invalidation_check.all_vts[i] : i \in 1..Len(invalidation_check.all_vts)}

\* The VersionedTargets the cache managers made so far give of its targets.
AtHand == {VersionedTarget(m, vt.targets[1], vt.cache_key) : m \in 1..managers, vt \in AllVts}

\* A client makes one set of a VersionedTarget of the last check and one at
\* hand.
Combine(a, b) ==
  /\ bpc = "idle"
  /\ combined = <<>>
  /\ combined' = <<[of |-> <<a, b>>, got |-> FromVersionedTargets(<<a, b>>)]>>
  /\ UNCHANGED <<bpc, sources, edits, store, managers, invalidation_check, vt_valid,
                 vts_valid, idx, compiled, marked, exit_codes, lastOp, basis, besidesBuild>>

NextBuild ==
  \/ \E t \in Targets : EditSources(t)
  \/ \E h \in Hints : Execute(h)
  \/ ProcessTargetPartition
  \/ \E code \in 0..1 : CompileReturns(code)
  \/ ExecuteReturns
  \/ \E a \in AllVts : \E b \in AtHand : Combine(a, b)

\* ------------------------------------- calls on the sets of a check ---
\* cache_manager.update(vts) or cache_manager.force_invalidate(vts), by name.
CacheManagerCall(op, st, vts) ==
  IF op = "update" THEN CacheManagerUpdate(st, vts) ELSE CacheManagerForceInvalidate(st, vts)

\* Between two runs, update() or force_invalidate() is called once on a
\* VersionedTarget of the last check.  Without partitioning the entries of
\* invalid_vts_partitioned are these same objects.
VersionedTargetCall(k, op) ==
  /\ bpc = "idle"
  /\ lastOp.op # "call"
  /\ k \in 1..Len(invalidation_check.all_vts)
  /\ LET vt == invalidation_check.all_vts[k]
         t == vt.targets[1]
         r == CacheManagerCall(op, store, vt)
         parts == invalidation_check.invalid_vts_partitioned
     IN  /\ store' = r.store
         /\ vt_valid' = [vt_valid EXCEPT ![t] = r.valid]
         /\ vts_valid' = [j \in DOMAIN vts_valid |->
              IF parts[j].single /\ parts[j].targets[1] = t THEN r.valid ELSE vts_valid[j]]
         /\ basis' = [basis EXCEPT ![t] = IF op = "update" THEN <<sources>> ELSE <<>>]
  /\ lastOp' = [op |-> "call", k |-> k]
  /\ UNCHANGED <<bpc, sources, edits, managers, invalidation_check, idx, compiled,
                 marked, exit_codes, combined, besidesBuild>>

\* The same on a set of all_vts_partitioned, when the check partitioned: the
\* set's members are the VersionedTargets of all_vts.
VersionedTargetSetCall(k, op) ==
  /\ bpc = "idle"
  /\ lastOp.op # "call"
  /\ k \in 1..Len(invalidation_check.all_vts_partitioned)
  /\ ~invalidation_check.all_vts_partitioned[k].single
  /\ LET vts == invalidation_check.all_vts_partitioned[k]
         r == CacheManagerCall(op, store, vts)
     IN  /\ store' = r.store
         /\ vt_valid' = [t \in Targets |->
              IF \E i \in 1..Len(vts.targets) : vts.targets[i] = t THEN r.valid ELSE vt_valid[t]]
         /\ basis' = [t \in Targets |->
              IF \E i \in 1..Len(vts.targets) : vts.targets[i] = t
              THEN (IF op = "update" THEN <<sources>> ELSE <<>>) ELSE basis[t]]
  /\ lastOp' = [op |-> "call", k |-> k]
  /\ UNCHANGED <<bpc, sources, edits, managers, invalidation_check, vts_valid, idx,
                 compiled, marked, exit_codes, combined, besidesBuild>>

NextVts ==
  \/ NextBuild
  \/ \E k \in 1..MaxTargets : \E op \in {"update", "force_invalidate"} :
       VersionedTargetCall(k, op)
  \/ \E k \in 1..MaxTargets : \E op \in {"update", "force_invalidate"} :
       VersionedTargetSetCall(k, op)

\* ------------------------------------------------ aggregated timings ----
\* The labels of the timings.
TimingLabels == {"compile", "test"}

\* The calls add_timing(label, secs, is_tool).
AddTimingCalls == [label : TimingLabels, secs : 1..MaxSecs, is_tool : BOOLEAN]

TimingsInit ==
  /\ timings_by_path = [l \in TimingLabels |-> 0]
  /\ tool_labels = {}
  /\ tpc = [t \in Threads |-> "idle"]
  /\ tcall = [t \in Threads |-> [label |-> "compile", secs |-> 1, is_tool |-> FALSE]]
  /\ loaded = [t \in Threads |-> 0]
  /\ returned = [l \in TimingLabels |-> 0]
  /\ adds = 0

\* add_timing, first half of `self._timings_by_path[label] += secs`: the
\* value of the label is read.
AddTimingLoad(t, c) ==
  /\ tpc[t] = "idle"
  /\ adds < MaxAdds
  /\ adds' = adds + 1
  /\ tcall' = [tcall EXCEPT ![t] = c]
  /\ loaded' = [loaded EXCEPT ![t] = timings_by_path[c.label]]
  /\ tpc' = [tpc EXCEPT ![t] = "loaded"]
  /\ UNCHANGED <<timings_by_path, tool_labels, returned, besidesTimings>>

\* add_timing, second half: the sum is stored; a tool's label is remembered.
AddTimingStore(t) ==
  /\ tpc[t] = "loaded"
  /\ timings_by_path' = [timings_by_path EXCEPT ![tcall[t].label] = loaded[t] + tcall[t].secs]
  /\ tool_labels' = IF tcall[t].is_tool THEN tool_labels \cup {tcall[t].label} ELSE tool_labels
  /\ returned' = [returned EXCEPT ![tcall[t].label] = @ + tcall[t].secs]
  /\ tpc' = [tpc EXCEPT ![t] = "idle"]
  /\ UNCHANGED <<tcall, loaded, adds, besidesTimings>>

NextTimings ==
  \/ \E t \in Threads : \E c \in AddTimingCalls : AddTimingLoad(t, c)
  \/ \E t \in Threads : AddTimingStore(t)

\* -------------------------------------------------- reporting server ----
\* A path is the sequence of its characters.
ServerRoot == <<"/", "r">>
AssetsDir == <<"/", "a">>

\* The file system: the root with a file and a directory in it, a directory
\* beside the root whose name starts with the root's, and a file elsewhere.
Dirs == {<<"/">>, <<"/", "r">>, <<"/", "r", "/", "d">>, <<"/", "r", "x">>, <<"/", "a">>}
Files == {<<"/", "r", "/", "f">>, <<"/", "r", "/", "d", "/", "g">>, <<"/", "r", "x", "/", "g">>, <<"/", "o">>, <<"/", "a", "/", "c">>}

\* What a text file holds: FileLen bytes, each its own.
FileBytes(p) == [i \in 1..FileLen |-> i]

\* The paths after the prefix in a request.
RelPaths == {<<>>, <<"f">>, <<"d">>, <<"n">>, <<"c">>, <<".", ".">>, <<".", ".", "/", "o">>, <<".", ".", "/", "r", "x">>, <<".", ".", "/", "r", "x", "/", "g">>, <<"d", "/", ".", ".", "/", "f">>}

Clients == {"127.0.0.1", "10.0.0.9"}
Prefixes == {"/runs/", "/browse/", "/content/", "/assets/", "/x/"}

\* A query parameter: given or not, and its number.
Absent == [given |-> FALSE, n |-> 0]
Params == {Absent} \cup {[given |-> TRUE, n |-> n] : n \in 0..FileLen}

Requests == [client : Clients, prefix : Prefixes, relpath : RelPaths, s : Params, e : Params]

\* The values of Settings.allowed_clients.
AllowedClients == {{"127.0.0.1"}, {"ALL"}, {}}

\* str.startswith
StartsWith(a, b) == Len(a) >= Len(b) /\ SubSeq(a, 1, Len(b)) = b

\* os.path.join(a, b)
Join(a, b) ==
  IF StartsWith(b, <<"/">>) THEN b
  ELSE IF a = <<>> \/ a[Len(a)] = "/" THEN a \o b
  ELSE a \o <<"/">> \o b

\* path.split('/'), cur being the component at hand
RECURSIVE Split(_, _)
Split(p, cur) ==
  IF p = <<>> THEN <<cur>>
  ELSE IF Head(p) = "/" THEN <<cur>> \o Split(Tail(p), <<>>)
  ELSE Split(Tail(p), Append(cur, Head(p)))

\* The loop of posixpath.normpath over the components.
RECURSIVE NewComps(_, _, _)
NewComps(comps, new_comps, initial_slashes) ==
  IF comps = <<>> THEN new_comps
  ELSE LET comp == Head(comps)
       IN  IF comp = <<>> \/ comp = <<".">>
           THEN NewComps(Tail(comps), new_comps, initial_slashes)
           ELSE IF \/ comp # <<".", ".">>
                   \/ (~initial_slashes /\ new_comps = <<>>)
                   \/ (new_comps # <<>> /\ new_comps[Len(new_comps)] = <<".", ".">>)
                THEN NewComps(Tail(comps), Append(new_comps, comp), initial_slashes)
                ELSE IF new_comps # <<>>
                     THEN NewComps(Tail(comps), SubSeq(new_comps, 1, Len(new_comps) - 1),
                                   initial_slashes)
                     ELSE NewComps(Tail(comps), new_comps, initial_slashes)

\* '/'.join(comps)
RECURSIVE JoinSlash(_)
JoinSlash(comps) ==
  IF comps = <<>> THEN <<>>
  ELSE IF Len(comps) = 1 THEN comps[1]
  ELSE comps[1] \o <<"/">> \o JoinSlash(Tail(comps))

\* os.path.normpath
NormPath(p) ==
  LET initial_slashes == StartsWith(p, <<"/">>)
      path == JoinSlash(NewComps(Split(p, <<>>), <<>>, initial_slashes))
      whole == IF initial_slashes THEN <<"/">> \o path ELSE path
  IN  IF whole = <<>> THEN <<".">> ELSE whole

\* No response on the connection.
NoResponse == [sent |-> FALSE, code |-> 0, kind |-> "", path |-> <<>>, content |-> <<>>]

\* The code of _send_content when the caller gives none.
DefaultCode == 200

\* _send_content(content, content_type, code=200)
SendContent(kind, path, content, code) ==
  [sent |-> TRUE, code |-> code, kind |-> kind, path |-> path, content |-> content]

\* What a handler did: the exception it raised, if any, and what it sent.
Raised(exc) == [raised |-> exc, response |-> NoResponse]
Returned(resp) == [raised |-> "", response |-> resp]

\* _handle_runs
HandleRuns(relpath) ==
  IF relpath = <<>> THEN Returned(SendContent("runs", <<>>, <<>>, DefaultCode))
  ELSE Returned(NoResponse)

\* _handle_browse
HandleBrowse(relpath) ==
  LET abspath == NormPath(Join(ServerRoot, relpath))
  IN  IF ~StartsWith(abspath, ServerRoot) THEN Raised("ValueError")
      ELSE IF abspath \in Dirs THEN Returned(SendContent("dir", abspath, <<>>, DefaultCode))
      ELSE IF abspath \in Files THEN Returned(SendContent("file", abspath, <<>>, DefaultCode))
      ELSE Returned(NoResponse)

\* infile.read(n) at a position: up to n bytes, all of them when n < 0.
Read(bytes, pos, n) ==
  IF n < 0 THEN SubSeq(bytes, pos + 1, Len(bytes))
  ELSE SubSeq(bytes, pos + 1, IF pos + n < Len(bytes) THEN pos + n ELSE Len(bytes))

\* _serve_file_content: start and end from s and e; `if end` takes an end
\* of 0 as no end.
ServeFileContent(abspath, s, e) ==
  LET start == IF s.given THEN s.n ELSE 0
      has_end == e.given /\ e.n # 0
  IN  IF abspath \notin Files THEN Raised("IOError")
      ELSE Returned(SendContent("content", abspath,
             IF has_end THEN Read(FileBytes(abspath), start, e.n - start)
             ELSE Read(FileBytes(abspath), start, -1),
             DefaultCode))

\* _handle_content
HandleContent(relpath, s, e) ==
  ServeFileContent(NormPath(Join(ServerRoot, relpath)), s, e)

\* _handle_assets and _serve_asset
HandleAssets(relpath) ==
  LET abspath == NormPath(Join(AssetsDir, relpath))
  IN  IF abspath \notin Files THEN Raised("IOError")
      ELSE Returned(SendContent("asset", abspath, FileBytes(abspath), DefaultCode))

\* The handler of a prefix, called by _maybe_handle.
Handle(req) ==
  IF req.prefix = "/runs/" THEN HandleRuns(req.relpath)
  ELSE IF req.prefix = "/browse/" THEN HandleBrowse(req.relpath)
  ELSE IF req.prefix = "/content/" THEN HandleContent(req.relpath, req.s, req.e)
  ELSE HandleAssets(req.relpath)

\* The prefixes of self._handlers.
Handled == {"/runs/", "/browse/", "/content/", "/assets/"}

\* `not client_ip in allowed_clients and not 'ALL' in allowed_clients`
Forbidden(client, allowed) == client \notin allowed /\ "ALL" \notin allowed

ServerInit ==
  /\ srv = "down"
  /\ allowed_clients = {}
  /\ request = <<>>
  /\ response = NoResponse
  /\ handler = ""
  /\ raised = ""
  /\ served = 0

\* ReportingServer(port, settings).start()
ServerStart(allowed) ==
  /\ srv = "down"
  /\ srv' = "up"
  /\ allowed_clients' = allowed
  /\ UNCHANGED <<request, response, handler, raised, served, besidesServer>>

\* do_GET: a forbidden client is told so with _send_content and its default
\* code; otherwise the first handler whose prefix the path starts with is
\* called, and an IOError or ValueError of it is written to stderr.
DoGet(req) ==
  /\ srv = "up"
  /\ served < MaxRequests
  /\ served' = served + 1
  /\ request' = <<req>>
  /\ IF Forbidden(req.client, allowed_clients)
     THEN /\ response' = SendContent("forbidden", <<>>, <<>>, DefaultCode)
          /\ handler' = ""
          /\ raised' = ""
     ELSE IF req.prefix \in Handled
          THEN /\ response' = Handle(req).response
               /\ handler' = req.prefix
               /\ raised' = Handle(req).raised
          ELSE /\ response' = NoResponse
               /\ handler' = ""
               /\ raised' = ""
  /\ UNCHANGED <<srv, allowed_clients, besidesServer>>

NextServer ==
  \/ \E allowed \in AllowedClients : ServerStart(allowed)
  \/ \E req \in Requests : DoGet(req)

\* ---------------------------------------------------- the report's lock ---
\* The threads that call the Report: the threads of the run, which call
\* start_workunit, message, end_workunit and close, and the emitter thread,
\* which calls flush.
EmitterThread == 0
ReportThreads == Threads \cup {EmitterThread}

ReportOps == {"start_workunit", "message", "end_workunit", "flush", "close"}

OpsOf(t) == IF t = EmitterThread THEN {"flush"} ELSE ReportOps \ {"flush"}

\* The reporter callbacks a Report method makes, each for every reporter in
\* turn; handle_output is _notify's.
CallbacksOf(op) ==
  CASE op = "start_workunit" -> <<"start_workunit">>
    [] op = "message" -> <<"handle_message">>
    [] op = "end_workunit" -> <<"handle_output", "end_workunit">>
    [] op = "flush" -> <<"handle_output">>
    [] op = "close" -> <<"handle_output", "close">>
    [] OTHER -> <<>>

\* A flush that would not take the lock.
UsesLockButFlush(op) == op \in ReportOps \ {"flush"}

\* The methods whose body is inside `with self._lock`.
UsesLock(op) == op \in ReportOps

NoCall == [op |-> "", k |-> 0, r |-> 0, inside |-> FALSE]

LockInit ==
  /\ lock = {}
  /\ rcall = [t \in ReportThreads |-> NoCall]

\* A thread calls a method of the Report.
ReportCall(t, op) ==
  /\ rcall[t] = NoCall
  /\ rcall' = [rcall EXCEPT ![t] = [op |-> op, k |-> 0, r |-> 0, inside |-> FALSE]]
  /\ UNCHANGED <<lock, besidesLock>>

\* `with self._lock`: the thread goes on when the lock is free, and holds it.
AcquireLock(t) ==
  /\ rcall[t].op # "" /\ rcall[t].k = 0
  /\ UsesLock(rcall[t].op) => lock = {}
  /\ lock' = IF UsesLock(rcall[t].op) THEN {t} ELSE lock
  /\ rcall' = [rcall EXCEPT ![t].k = 1, ![t].r = 1]
  /\ UNCHANGED besidesLock

\* The thread is at a callback of its method and has not entered it.
AtCallback(t) ==
  /\ rcall[t].k >= 1 /\ rcall[t].k <= Len(CallbacksOf(rcall[t].op))
  /\ ~rcall[t].inside

\* The thread calls the callback of the next reporter.
CallbackEnter(t) ==
  /\ AtCallback(t)
  /\ rcall' = [rcall EXCEPT ![t].inside = TRUE]
  /\ UNCHANGED <<lock, besidesLock>>

\* _notify has read nothing: no handle_output is called.
NotifyNothing(t) ==
  /\ AtCallback(t)
  /\ CallbacksOf(rcall[t].op)[rcall[t].k] = "handle_output"
  /\ rcall[t].r = 1
  /\ rcall' = [rcall EXCEPT ![t].k = @ + 1]
  /\ UNCHANGED <<lock, besidesLock>>

\* The callback returns; the loop goes to the next reporter, or is over.
CallbackReturn(t) ==
  /\ rcall[t].inside
  /\ rcall' = [rcall EXCEPT ![t] =
                 IF @.r < NumReporters
                 THEN [@ EXCEPT !.inside = FALSE, !.r = @ + 1]
                 ELSE [@ EXCEPT !.inside = FALSE, !.r = 1, !.k = @ + 1]]
  /\ UNCHANGED <<lock, besidesLock>>

\* The end of the with block: the lock is released, the method returns.
ReleaseLock(t) ==
  /\ rcall[t].op # ""
  /\ rcall[t].k = Len(CallbacksOf(rcall[t].op)) + 1
  /\ lock' = lock \ {t}
  /\ rcall' = [rcall EXCEPT ![t] = NoCall]
  /\ UNCHANGED besidesLock

NextLock ==
  \/ \E t \in ReportThreads : \E op \in OpsOf(t) : ReportCall(t, op)
  \/ \E t \in ReportThreads : AcquireLock(t)
  \/ \E t \in ReportThreads : CallbackEnter(t)
  \/ \E t \in ReportThreads : NotifyNothing(t)
  \/ \E t \in ReportThreads : CallbackReturn(t)
  \/ \E t \in ReportThreads : ReleaseLock(t)

\* No chain has been written yet.
ArtifactsInit == work_chains = <<>>

\* ------------------------------------------------------ specification ---
Init ==
  /\ PoolInit /\ ReportInit /\ TrackerInit /\ CacheInit
  /\ BuildInit /\ TimingsInit /\ ServerInit /\ LockInit /\ ArtifactsInit

\* The worker threads and the result handler.
PoolStep ==
  \/ TakeTask
  \/ \E t \in running : FuncReturn(t)
  \/ \E t \in running : FuncRaise(t)
  \/ HandleResult

\* A client that submits work chains and work, registers hooks and shuts down.
Next ==
  \/ AddShutdownHook
  \/ \E shape \in Shapes(MaxInv) : SubmitAsyncWorkChain(shape)
  \/ Shutdown
  \/ ShutdownClose
  \/ ShutdownJoin
  \/ ShutdownHooks
  \/ \E t \in running : WrapperExcept(t)
  \/ HandlerDecrement
  \/ PoolStep

Spec == Init /\ [][Next]_vars

\* A client that submits single Works, with a callback or waiting for them.
NextWork ==
  \/ \E n \in 0..MaxInv : SubmitAsyncWork(n)
  \/ \E n \in 0..MaxInv : SubmitWorkAndWait(n)
  \/ WorkAndWaitReturn
  \/ PoolStep

SpecWork == Init /\ [][NextWork]_vars

\* The report, its emitter thread, the threads of the work units and the producers.
SpecReport == Init /\ [][NextReport]_vars

\* The threads that open work scopes on one RunTracker.
SpecTracker == Init /\ [][NextTracker]_vars

\* A task's check of its targets, partitioned.
SpecCache == Init /\ [][NextCache]_vars

\* Runs of ScalaCompile.execute over one invalidator directory.
SpecBuild == Init /\ [][NextBuild]_vars

\* Threads calling add_timing.
SpecTimings == Init /\ [][NextTimings]_vars

\* The reporting server and its requests.
SpecServer == Init /\ [][NextServer]_vars

\* The threads that call the Report's methods.
SpecLock == Init /\ [][NextLock]_vars

\* The compile task's runs, and calls on the sets of a check between them.
SpecVts == Init /\ [][NextVts]_vars

\* ------------------------------------- the chain of the artifact cache ---
\* A chain with each insert ahead of the Work that makes its files.
WorkChainInsertsFirst(local, remote) ==
  (IF local THEN <<"local">> ELSE <<>>) \o <<"split">>
    \o (IF remote THEN <<"remote", "relativize">> ELSE <<>>)

\* work_chain: split, then the insert into the local cache if there is one,
\* then relativize and the insert into the remote cache if there is one.
WorkChain(local, remote) ==
  <<"split">> \o (IF local THEN <<"local">> ELSE <<>>)
    \o (IF remote THEN <<"relativize", "remote">> ELSE <<>>)

\* The argument tuples of a Work of the chain for a set of n targets: one for
\* split, one per target for relativize and for an insert.
WorkArgs(name, n) == IF name = "split" THEN 1 ELSE n

\* execute after vts.update(): _write_to_artifact_cache(vts, ...) makes the
\* chain for the partition just compiled and submits it to the background
\* pool, when the task has a local or a remote cache to write to.
WriteToArtifactCache(local, remote) ==
  /\ bpc = "loop" /\ idx > 1
  /\ Len(work_chains) < MaxChains
  /\ \A x \in DOMAIN work_chains :
       ~(work_chains[x].run = managers /\ work_chains[x].part = idx - 1)
  /\ local \/ remote
  /\ LET k == idx - 1
         vts == invalidation_check.invalid_vts_partitioned[k]
         names == WorkChain(local, remote)
         shape == [s \in 1..Len(names) |-> WorkArgs(names[s], Len(vts.targets))]
         c == Len(chains) + 1
         new == ChainJobs(c, shape, SubmitNext(shape, 1))
     IN  /\ pending' = pending + 1
         /\ chains' = Append(chains, [shape |-> shape, fails |-> 0, done |-> FALSE])
         /\ jobs' = jobs \o new
         /\ taskq' = EnqueueAll(taskq, Len(jobs) + 1, new)
         /\ work_chains' = Append(work_chains,
              [chain |-> c, run |-> managers, part |-> k, names |-> names,
               valid |-> vts_valid[k], compiled |-> k \in compiled])
  /\ UNCHANGED <<pcMain, closed, hooks, hooksRun, outq, running, hpc, logged,
                 emptySubmits, emptyCalls, syncRes, lateSubmit, used, reportVars,
                 trackerVars, cacheVars, buildVars, timingVars, serverVars, lockVars>>

\* The compile task's runs, its chains and the background pool's threads.
NextArtifacts ==
  \/ \E h \in Hints : Execute(h)
  \/ ProcessTargetPartition
  \/ \E code \in 0..1 : CompileReturns(code)
  \/ ExecuteReturns
  \/ \E local \in BOOLEAN : \E remote \in BOOLEAN : WriteToArtifactCache(local, remote)
  \/ \E t \in running : WrapperExcept(t)
  \/ HandlerDecrement
  \/ PoolStep

SpecArtifacts == Init /\ [][NextArtifacts]_vars

\* ------------------------------------------------- the pool's claims ---
ChainJobIds == {j \in DOMAIN jobs : jobs[j].kind = "chain"}
AsyncJobIds == {j \in DOMAIN jobs : jobs[j].kind = "async"}

Begun(j) == \E i \in 1..jobs[j].n : jobs[j].inv[i] # "queued"
AllOk(j) == \A i \in 1..jobs[j].n : jobs[j].inv[i] = "ok"
SomeRaised(j) == \E i \in 1..jobs[j].n : jobs[j].inv[i] = "raised"
Later(j, k) == jobs[j].chain = jobs[k].chain /\ jobs[j].step < jobs[k].step

\* C1: no invocation of a chain's later step has begun unless every invocation
\* of each earlier step of that chain has completed.
C1_StepWaitsForPrevious ==
  \A j \in ChainJobIds : \A k \in ChainJobIds :
    (Later(j, k) /\ Begun(k)) =>
      \A i \in 1..jobs[j].n : jobs[j].inv[i] \in {"ok", "raised"}

\* A second step is running after a first step of two invocations.
C1_Witness ==
  \E j \in ChainJobIds : \E k \in ChainJobIds :
    /\ Later(j, k)
    /\ jobs[j].n = 2
    /\ \E t \in running : t.job = k

\* C2: once an invocation of a chain's step has raised, no invocation of a
\* later step of that chain has begun.
C2_NoStepAfterFailure ==
  \A j \in ChainJobIds :
    SomeRaised(j) =>
      /\ \A k \in ChainJobIds : Later(j, k) => ~Begun(k)
      /\ jobs[j].cbCalls = 0

\* A step with a later non-empty step has failed, the failure has been
\* handled, and its other invocation has returned.
C2_Witness ==
  \E j \in ChainJobIds :
    /\ SubmitNext(chains[jobs[j].chain].shape, jobs[j].step + 1) # <<>>
    /\ jobs[j].n = 2
    /\ SomeRaised(j)
    /\ \E i \in 1..jobs[j].n : jobs[j].inv[i] = "ok"
    /\ ~jobs[j].cached
    /\ outq = <<>> /\ running = {}

\* A chain is outstanding until it has completed its last step or failed.
Outstanding(c) == ~chains[c].done /\ chains[c].fails = 0
InExcept == \E t \in running : t.pc = "except"

\* C3: a failed invocation of a chain step is logged and the chain's share of
\* the counter is given back: with no chain outstanding the counter is 0.
C3_FailureReturnsCounter ==
  /\ \A j \in ChainJobIds : \A i \in 1..jobs[j].n :
       (jobs[j].inv[i] = "raised" /\ ~\E t \in running : t.job = j /\ t.i = i)
         => <<j, i>> \in logged
  /\ ((\A c \in DOMAIN chains : ~Outstanding(c)) /\ ~InExcept) => pending = 0

\* C4: the pool is closed only when no submitted chain is outstanding, and no
\* chain step is submitted to the closed pool.
C4_ClosedOnlyWhenChainsDone ==
  /\ closed => \A c \in DOMAIN chains : ~Outstanding(c)
  /\ ~lateSubmit

\* C5: the callback of a non-empty Work is called at most once, only when
\* every invocation has returned, and once when the job has completed with
\* success; never when an invocation has raised.
C5_CallbackOnceAfterAll ==
  \A j \in AsyncJobIds :
    /\ jobs[j].cbCalls <= 1
    /\ jobs[j].cbCalls = 1 => AllOk(j)
    /\ SomeRaised(j) => jobs[j].cbCalls = 0
    /\ (jobs[j].ready /\ jobs[j].success) => jobs[j].cbCalls = 1

\* The callback of a Work of two invocations has been called.
C5_Witness ==
  \E j \in AsyncJobIds : jobs[j].n = 2 /\ jobs[j].cbCalls = 1

\* C6: every submission of an empty Work has called the callback once, with
\* the empty list, and has put no job in the pool.
C6_EmptyWorkCallsBack ==
  /\ Len(emptyCalls) = emptySubmits
  /\ \A k \in DOMAIN emptyCalls : emptyCalls[k] = <<>>
  /\ \A j \in DOMAIN jobs : jobs[j].n > 0
  /\ \A k \in DOMAIN taskq : jobs[taskq[k][1]].n > 0

\* Two submissions of an empty Work, beside a job in the pool.
C6_Witness == emptySubmits = 2 /\ Len(emptyCalls) = 2 /\ jobs # <<>>

\* The return values of a Work's invocations, in argument-tuple order.
ReturnValues(n) == [i \in 1..n |-> Func(ArgsTuples(n)[i])]

\* C7: the list the callback gets has one entry per argument tuple, entry i
\* being what func returned for tuple i.
C7_CallbackGetsReturnValues ==
  \A j \in AsyncJobIds :
    jobs[j].cbCalls > 0 => jobs[j].cbArg = ReturnValues(jobs[j].n)

\* C8: submit_work_and_wait returns only when every invocation has returned,
\* with the return values in argument-tuple order; it raises only when an
\* invocation has raised; for an empty Work it returns the empty list without
\* a job.
C8_WorkAndWait ==
  /\ (syncRes.outcome = "returned" /\ syncRes.job # 0) =>
        /\ AllOk(syncRes.job)
        /\ syncRes.value = ReturnValues(jobs[syncRes.job].n)
  /\ syncRes.outcome = "raised" => SomeRaised(syncRes.job)
  /\ (syncRes.outcome = "returned" /\ syncRes.job = 0) => syncRes.value = <<>>
  /\ pcMain = "sync_wait" <=> syncRes.outcome = "waiting"
  /\ \A j \in DOMAIN jobs : jobs[j].kind = "sync" => jobs[j].n > 0

\* A wait for two invocations has returned their values.
C8_Witness ==
  /\ syncRes.outcome = "returned"
  /\ syncRes.job # 0
  /\ jobs[syncRes.job].n = 2

\* A wait has raised while the other invocation had not yet begun.
C8_WitnessRaised ==
  /\ syncRes.outcome = "raised"
  /\ \E i \in 1..jobs[syncRes.job].n : jobs[syncRes.job].inv[i] = "queued"

AllJobsFinished ==
  /\ taskq = <<>>
  /\ running = {}
  /\ \A j \in DOMAIN jobs : \A i \in 1..jobs[j].n : jobs[j].inv[i] \in {"ok", "raised"}

\* C9: shutdown() has called no hook before every job of the pool has
\* finished, and when it returns it has called every registered hook once, in
\* the order of registration.
C9_HooksAfterJobs ==
  /\ hooksRun # <<>> => AllJobsFinished
  /\ pcMain = "done" => (hooksRun = hooks /\ AllJobsFinished)
  /\ pcMain # "done" => hooksRun = <<>>

\* shutdown() has returned after two hooks and a chain of two steps.
C9_Witness ==
  /\ pcMain = "done"
  /\ hooksRun = <<1, 2>>
  /\ \E j \in ChainJobIds : jobs[j].step = 2

\* ----------------------------------------------- the report's claims ---
NoDuplicates(q) == \A a \in DOMAIN q : \A b \in DOMAIN q : a # b => q[a] # q[b]
PassedTo(r, st) == {delivered[r][st][k] : k \in DOMAIN delivered[r][st]}

Increasing(seq) == \A i \in DOMAIN seq : \A k \in DOMAIN seq : i < k => seq[i] < seq[k]

\* C11: within one stream (work unit, label), every reporter is passed the
\* bytes in the order they were produced, whichever of the emitter thread's
\* flush and a thread's end_workunit reads the buffer.
C11_InProductionOrder ==
  \A r \in DOMAIN reporters : \A st \in Streams : Increasing(delivered[r][st])

\* A reporter has been passed two bytes of a stream in two calls, the second
\* by an end_workunit that holds the lock while the emitter thread, awake,
\* waits for it.
C11_Witness ==
  \E r \in DOMAIN reporters : \E st \in Streams :
    /\ Len(delivered[r][st]) = 2
    /\ lockOp # <<>> /\ lockOp.op = "end" /\ lockOp.unit = st[1]
    /\ st \notin lockOp.todo
    /\ emitter = "woke"
    /\ endMark[st] = 2

\* C12: when a reporter is called with the end_workunit of a unit, it has been
\* passed every byte appended to the unit's buffers before end_workunit was
\* called.
C12_EndAfterOutput ==
  \A r \in DOMAIN reporters : \A st \in Streams :
    st[1] \in endedAt[r] => 1..endMark[st] \subseteq PassedTo(r, st)

\* The last reporter has been called with the end of a unit that had output
\* when it was ended.
C12_Witness ==
  \E st \in Streams :
    /\ Len(reporters) = NumReporters
    /\ st[1] \in endedAt[NumReporters]
    /\ endMark[st] >= 1
    /\ ustate[st[1]] = "ended"

\* C13: when a reporter's callback raises, the reporters that do not raise
\* are still called with the event: every reporter that does not raise has
\* been called with the end_workunit of every unit whose end_workunit is over.
C13_OthersStillReceive ==
  \A u \in Units : \A r \in DOMAIN reporters :
    (ustate[u] \in {"ended", "aborted"} /\ ~Raises(r)) => u \in endedAt[r]

\* ------------------------------------------ the run tracker's claims ---
\* The units that new_work_scope has created, and those whose scope is over.
ScopeUnits == 2..Len(workunits)
LeftUnits == {w \in ScopeUnits : workunits[w].left # "no"}

\* C14: a unit created by new_work_scope is ended and its end reported at most
\* once, and exactly once when its scope has been left, whether its body
\* returned or raised; the current unit is then the unit's parent.
C14_ScopeEndsUnitOnce ==
  /\ \A w \in ScopeUnits : workunits[w].ends <= 1 /\ workunits[w].endEvents <= 1
  /\ \A w \in LeftUnits :
       /\ workunits[w].ends = 1
       /\ workunits[w].endEvents = 1
       /\ workunits[w].after = workunits[w].parent

\* C15: when its scope has been left, a unit whose body raised has outcome
\* FAILURE, and a unit whose body returned without setting an outcome has
\* outcome SUCCESS.
C15_OutcomeOfExit ==
  \A w \in LeftUnits :
    /\ workunits[w].body = "raised" => workunits[w].outcome = "FAILURE"
    /\ (workunits[w].body = "returned" /\ ~workunits[w].warned)
         => workunits[w].outcome = "SUCCESS"

\* C16: when its scope has been left, a unit whose body set the outcome to
\* WARNING and returned has outcome WARNING.
C16_WarningKept ==
  \A w \in LeftUnits :
    (workunits[w].warned /\ workunits[w].body = "returned")
      => workunits[w].outcome = "WARNING"

\* C17: with threads opening scopes concurrently, the parent of a new unit is
\* the unit its thread was in when it called new_work_scope, and when the
\* scope has been left the current unit is that unit again.
C17_ThreadsKeepTheirUnits ==
  /\ \A w \in ScopeUnits : workunits[w].parent = workunits[w].entry
  /\ \A w \in LeftUnits : workunits[w].after = workunits[w].entry

\* ---------------------------------------- the cache manager's claims ---
RECURSIVE Concat(_)
Concat(groups) == IF groups = <<>> THEN <<>> ELSE Head(groups) \o Concat(Tail(groups))

TargetsOf(vts) == [i \in 1..Len(vts) |-> vts[i].target]
InGroup(target, group) == \E i \in 1..Len(group) : group[i].target = target

\* C18: when check(T, h) with h > 0 has partitioned all_vts, every target of
\* T is in exactly one of the groups, no group is empty, and the groups one
\* after the other hold the targets in the order of _order_target_list.
C18_PartitionCovers ==
  ppc = "done" =>
    /\ \A i \in 1..Len(ordered_targets) :
         Cardinality({k \in 1..Len(res) : InGroup(ordered_targets[i], res[k])}) = 1
    /\ \A k \in 1..Len(res) : res[k] # <<>>
    /\ TargetsOf(Concat(res)) = ordered_targets

\* A check of all the targets has been partitioned.
C18_Witness ==
  /\ ppc = "done"
  /\ Len(ordered_targets) = MaxTargets
  /\ partition_size_hint >= 1
  /\ Len(res) >= 1

\* The rule of the partitioning: the groups closed so far, the group under
\* way and its total, taken through the VTs that remain.
RECURSIVE RuleGroups(_, _, _, _, _)
RuleGroups(vts, hint, groups, group, total) ==
  IF vts = <<>>
  THEN IF group = <<>> THEN groups ELSE Append(groups, group)
  ELSE LET vt == Head(vts)
           g == Append(group, vt)
           t == total + vt.num_sources
       IN  IF 2 * t > 3 * hint /\ Len(g) > 1
           THEN RuleGroups(Tail(vts), hint, Append(groups, group), <<vt>>, vt.num_sources)
           ELSE IF t > hint
                THEN RuleGroups(Tail(vts), hint, Append(groups, g), <<>>, 0)
                ELSE RuleGroups(Tail(vts), hint, groups, g, t)

\* C19: _partition_versioned_targets returns the groups of the rule: a VT's
\* sources are added to the total; past 1.5 * hint with more than one VT the
\* group is closed without the VT, which starts the next; else past the hint
\* the group is closed with it; the last group is closed if not empty.
C19_PartitionFollowsRule ==
  ppc = "done" => res = RuleGroups(versioned_targets, partition_size_hint, <<>>, <<>>, 0)

\* The groups of vts with the given positions in each group.
Grouped(vts, positions) ==
  [k \in 1..Len(positions) |-> [i \in 1..Len(positions[k]) |-> vts[positions[k][i]]]]

\* C20: six VTs with 400, 400, 400, 800, 200 and 200 sources and hint 1000
\* are partitioned into [[vt1, vt2], [vt3], [vt4], [vt5, vt6]].
C20_ScenarioS1 ==
  (ppc = "done" /\ ordered_targets = ScenarioS1.ordered /\ partition_size_hint = ScenarioS1.hint)
    => res = Grouped(versioned_targets, <<<<1, 2>>, <<3>>, <<4>>, <<5, 6>>>>)

\* ------------------------------------------ the invalidation's claims ---
\* The keys of a set: its own and its members'.
KeysOf(vts) == {vts.cache_key} \cup {vts.keys[i] : i \in 1..Len(vts.keys)}

\* The targets of a set.
MembersOf(vts) == {vts.targets[i] : i \in 1..Len(vts.targets)}

\* C21: a check called with no partition size hint, or with a hint of 0,
\* leaves all_vts_partitioned equal to all_vts and invalid_vts_partitioned
\* equal to invalid_vts: one single-target entry for each target.
C21_NoHintNoPartition ==
  LET ic == invalidation_check
  IN  (~ic.hint.given \/ ic.hint.hint = 0) =>
        /\ ic.all_vts_partitioned = ic.all_vts
        /\ ic.invalid_vts_partitioned = ic.invalid_vts
        /\ \A i \in 1..Len(ic.all_vts_partitioned) :
             Len(ic.all_vts_partitioned[i].targets) = 1
        /\ \A i \in 1..Len(ic.invalid_vts_partitioned) :
             Len(ic.invalid_vts_partitioned[i].targets) = 1

\* A check of two targets or more, some of them invalid, with a hint of 0.
C21_Witness ==
  /\ managers > 0
  /\ invalidation_check.hint.given
  /\ invalidation_check.hint.hint = 0
  /\ Len(invalidation_check.all_vts) >= 2
  /\ Len(invalidation_check.invalid_vts) >= 2

\* C22: after update(vts) the set and every member are valid and
\* needs_update is false for the set's key and every member's key; after
\* force_invalidate(vts) all are invalid and needs_update is true for them.
C22_UpdateAndForceInvalidate ==
  lastOp.op \in {"update", "force_invalidate"} =>
    LET vts == invalidation_check.invalid_vts_partitioned[lastOp.k]
    IN  IF lastOp.op = "update"
        THEN /\ vts_valid[lastOp.k]
             /\ \A t \in MembersOf(vts) : vt_valid[t]
             /\ \A key \in KeysOf(vts) : ~NeedsUpdate(store, key)
        ELSE /\ ~vts_valid[lastOp.k]
             /\ \A t \in MembersOf(vts) : ~vt_valid[t]
             /\ \A key \in KeysOf(vts) : NeedsUpdate(store, key)

\* update was called on a set of two members or more.
C22_Witness ==
  /\ lastOp.op = "update"
  /\ Len(invalidation_check.invalid_vts_partitioned[lastOp.k].targets) >= 2

\* The targets a check was asked about.
Checked == UNION {MembersOf(invalidation_check.all_vts[i]) :
                    i \in 1..Len(invalidation_check.all_vts)}

\* The targets a check found invalid.
Invalid == UNION {MembersOf(invalidation_check.invalid_vts[i]) :
                    i \in 1..Len(invalidation_check.invalid_vts)}

\* C23: after update(vts) for sets that cover a list of targets, a check of
\* the same unchanged targets by a fresh CacheManager over the same
\* invalidator store returns every VersionedTarget valid and no invalid_vts.
C23_FreshManagerSeesValid ==
  (lastOp.op = "check" /\ \A t \in Checked : basis[t] = <<sources>>) =>
    /\ invalidation_check.invalid_vts = <<>>
    /\ \A t \in Checked : vt_valid[t]

\* The second cache manager checks two targets or more, all updated by the
\* run before and unchanged.
C23_Witness ==
  /\ lastOp.op = "check"
  /\ managers = 2
  /\ Len(invalidation_check.all_vts) >= 2
  /\ \A t \in Checked : basis[t] = <<sources>>

\* C24: with invalidate_dependents, target 1 depending on target 2 and both
\* marked valid: after a change of 2's sources a check reports both invalid;
\* after a change of 1's sources only, it reports 1 invalid and 2 valid.
C24_DependentsInvalidated ==
  LET dependent == 1
      dependency == 2
  IN  ( /\ lastOp.op = "check"
        /\ {dependent, dependency} \subseteq Checked
        /\ basis[dependent] # <<>>
        /\ basis[dependent] = basis[dependency] ) =>
        LET was == basis[dependent][1]
        IN  /\ sources[dependency] # was[dependency] =>
                 dependent \in Invalid /\ dependency \in Invalid
            /\ (sources[dependent] # was[dependent] /\ sources[dependency] = was[dependency]) =>
                 dependent \in Invalid /\ dependency \notin Invalid

\* Both were marked valid, the sources of 2 changed, and both are checked.
C24_Witness ==
  /\ lastOp.op = "check"
  /\ {1, 2} \subseteq Checked
  /\ basis[1] # <<>>
  /\ basis[1] = basis[2]
  /\ sources[2] # basis[1][1][2]

C26_MixedManagersFail ==
  (combined # <<>> /\ combined[1].of[1].manager # combined[1].of[2].manager) =>
    /\ combined[1].got.raised = "ValueError"
    /\ combined[1].got.made = <<>>

\* from_versioned_targets was called with the targets of two cache managers.
C26_Witness ==
  /\ combined # <<>>
  /\ combined[1].of[1].manager # combined[1].of[2].manager

\* ------------------------------------------------ the timings' claim ----
\* C27: when add_timing is called from different threads at the same time,
\* no update is lost: once the calls have returned, each label's timing is
\* the sum of the seconds added to it.
C27_NoUpdateLost ==
  (\A t \in Threads : tpc[t] = "idle") => timings_by_path = returned

\* ------------------------------------------------- the server's claims ---
\* A path beneath a root, or the root itself.
Beneath(abspath, root) == abspath = root \/ StartsWith(abspath, root \o <<"/">>)

\* C28: a GET from a client that is not in allowed_clients, which does not
\* hold ALL, is answered with status 403 and no handler runs.
C28_ForbiddenGets403 ==
  (request # <<>> /\ Forbidden(request[1].client, allowed_clients)) =>
    /\ response.sent
    /\ response.code = 403
    /\ handler = ""

\* C29: a GET of /browse/<path> whose normalised path lies outside the root
\* serves no directory listing and no file, and is answered with status 400.
C29_EscapeGets400 ==
  ( /\ request # <<>>
    /\ ~Forbidden(request[1].client, allowed_clients)
    /\ request[1].prefix = "/browse/"
    /\ ~Beneath(NormPath(Join(ServerRoot, request[1].relpath)), ServerRoot) ) =>
    /\ response.kind \notin {"dir", "file"}
    /\ response.sent
    /\ response.code = 400

\* C30: a GET of /content/<path>?s=<s>&e=<e> returns exactly the bytes s to
\* e-1 of the file, for all 0 <= s <= e <= length; without s it starts at
\* 0, without e it reads to the end of the file.
C30_ByteRange ==
  ( /\ request # <<>>
    /\ ~Forbidden(request[1].client, allowed_clients)
    /\ request[1].prefix = "/content/"
    /\ NormPath(Join(ServerRoot, request[1].relpath)) \in Files ) =>
    LET bytes == FileBytes(NormPath(Join(ServerRoot, request[1].relpath)))
        from == IF request[1].s.given THEN request[1].s.n ELSE 0
        to == IF request[1].e.given THEN request[1].e.n ELSE Len(bytes)
    IN  (from <= to /\ to <= Len(bytes)) =>
          /\ response.sent
          /\ response.content = SubSeq(bytes, from + 1, to)

\* -------------------------------------- the pool's counter and shutdown ---
\* C31: after any chain submissions, step completions and step failures,
\* also of several invocations of one step, the pending-chain counter is the
\* number of chains that have neither completed their last step nor failed,
\* and it is never negative.
C31_CounterCountsChains ==
  /\ pending >= 0
  /\ pending = Cardinality({c \in DOMAIN chains : Outstanding(c)})

\* C32: when every invocation terminates, shutdown() returns: no worker and
\* no result-callback thread is left waiting for the condition lock that
\* shutdown holds while it closes and joins the pool.
C32_ShutdownReturns ==
  pcMain = "sd_join" =>
    /\ \A t \in running : t.pc # "except"
    /\ hpc[1] # "decr"

\* ------------------------------------------- the report's callbacks ---
\* C33: a reporter is called with the end_workunit of a unit only after it was
\* called with the unit's start_workunit, and with handle_output for the unit
\* only after its start_workunit and never after its end_workunit.
C33_StartOutputEnd ==
  [][\A r \in DOMAIN reporters :
       /\ \A u \in Units :
            (u \in endedAt'[r] /\ u \notin endedAt[r]) => u \in startedAt[r]
       /\ \A st \in Streams :
            delivered'[r][st] # delivered[r][st] =>
              (st[1] \in startedAt[r] /\ st[1] \notin endedAt[r])]_vars

\* C34: the work unit map holds exactly the units that have been started and
\* whose end_workunit call is not over; when every started unit has been ended
\* the map is empty.
C34_MapHoldsOpenUnits ==
  wmap = {u \in Units : ustate[u] \in {"open", "ending"}}

\* C36: a reporter whose close() has been called by Report.close() is not
\* called with handle_output again, also when the emitter thread had woken
\* before close() stopped it.
C36_NoOutputAfterClose ==
  [][(rstate = "closed" /\ lockOp # <<>> /\ lockOp.op = "flush") =>
       \A r \in DOMAIN reporters : \A st \in Streams :
         delivered'[r][st] = delivered[r][st]]_vars

\* The thread is inside a reporter callback.
InsideCallback(t) == rcall[t].inside

\* C35: a thread is inside a reporter callback (start_workunit, end_workunit,
\* handle_message, handle_output) only while it holds the Report's lock, and no
\* two threads are inside a reporter callback at the same time.
C35_CallbacksUnderLock ==
  /\ \A t \in ReportThreads : InsideCallback(t) => lock = {t}
  /\ \A t \in ReportThreads : \A s \in ReportThreads :
       (InsideCallback(t) /\ InsideCallback(s)) => t = s

\* The emitter thread is inside handle_output of the last reporter while a
\* thread that called message and another that called end_workunit wait for
\* the lock.
C35_Witness ==
  /\ InsideCallback(EmitterThread)
  /\ rcall[EmitterThread].r = NumReporters
  /\ \E t \in Threads : rcall[t].op = "message" /\ rcall[t].k = 0
  /\ \E t \in Threads : rcall[t].op = "end_workunit" /\ rcall[t].k = 0

\* ------------------------------------------ the sets a check returns ---
\* The valid flag a VersionedTargetSet is made with: its key needs no update.
ValidWhenMade(vts) == ~NeedsUpdate(store, vts.cache_key)

\* The sets a check returned, partitioned or not.
ReturnedSets(ic) ==
  {ic.all_vts_partitioned[i] : i \in 1..Len(ic.all_vts_partitioned)}
    \cup {ic.invalid_vts_partitioned[i] : i \in 1..Len(ic.invalid_vts_partitioned)}

\* C37: whatever update and force_invalidate calls were made on the sets of
\* earlier checks, a set that a check returns is valid only if every one of
\* its members is valid; a set made of invalid members only is invalid.
C37_ValidSetHasValidMembers ==
  lastOp.op = "check" =>
    \A vts \in ReturnedSets(invalidation_check) :
      ValidWhenMade(vts) => \A t \in MembersOf(vts) : vt_valid[t]

\* ------------------------------------- the artifact chain's claims ---
\* The name of the Work a job of an artifact chain runs.
WorkName(x, j) == work_chains[x].names[jobs[j].step]

\* The jobs of the x-th artifact chain.
JobsOf(x) == {j \in ChainJobIds : jobs[j].chain = work_chains[x].chain}

\* Where a Work stands in the order split, local insert, relativize, remote
\* insert.
Place(name) ==
  CHOOSE p \in 1..4 : <<"split", "local", "relativize", "remote">>[p] = name

\* C38: the Works of a partition's artifact chain begin in the order split,
\* local insert, relativize, remote insert, each only when every invocation
\* of the one before it has finished; the chain was submitted when its
\* partition had been compiled and marked valid; and once split or relativize
\* has raised, no later insert has begun.
C38_ArtifactChainInOrder ==
  \A x \in DOMAIN work_chains :
    /\ work_chains[x].compiled /\ work_chains[x].valid
    /\ \A k \in JobsOf(x) :
         Begun(k) =>
           \A s \in 1..Len(work_chains[x].names) :
             Place(work_chains[x].names[s]) < Place(WorkName(x, k)) =>
               \E j \in JobsOf(x) :
                 /\ jobs[j].step = s
                 /\ \A i \in 1..jobs[j].n : jobs[j].inv[i] \in {"ok", "raised"}
    /\ \A j \in JobsOf(x) :
         (WorkName(x, j) \in {"split", "relativize"} /\ SomeRaised(j)) =>
           \A k \in JobsOf(x) :
             (WorkName(x, k) \in {"local", "remote"}
                /\ Place(WorkName(x, j)) < Place(WorkName(x, k))) => ~Begun(k)

\* A chain with both caches for a partition of two targets: the remote insert
\* is running after split, the local insert and relativize.
C38_Witness ==
  \E x \in DOMAIN work_chains : \E k \in JobsOf(x) :
    /\ work_chains[x].names = <<"split", "local", "relativize", "remote">>
    /\ WorkName(x, k) = "remote"
    /\ jobs[k].n >= 2
    /\ \E t \in running : t.job = k

\* ------------------------------------- what the server reads and sends ---
\* C39: the bytes sent for a GET of /content/<path> are those of a file
\* beneath the root, and the file sent for a GET of /assets/<path> is beneath
\* assets_dir.
C39_ServedFromBeneath ==
  /\ response.kind = "content" => Beneath(response.path, ServerRoot)
  /\ response.kind = "asset" => Beneath(response.path, AssetsDir)

==========================================================================
